---------------------------- MODULE Spec2Model ----------------------------
(***************************************************************************)
(* A model of MiniVue (src/src/miniVue.ts): the dependency tracker and the *)
(* reactive proxy, the effect runner, the virtual-DOM reconciler, the      *)
(* router and the application shell.                                       *)
(*                                                                         *)
(* Execution is single-threaded and synchronous: a property write runs the *)
(* whole cascade of effects before it returns.  Each top-level call (a     *)
(* write, effect(), mount(), navigate(), ...) is therefore one action; the *)
(* cascade is computed by recursive operators over a record `st' that      *)
(* holds the mutable program state while the call runs.                    *)
(***************************************************************************)
EXTENDS Integers, Sequences, FiniteSets, TLC

(***************************************************************************)
(* Bounds of the model.                                                    *)
(***************************************************************************)
\* property values of the plain reactive object are 0..MaxVal
MaxVal == 1
\* depth of nested synchronous effect invocations before the host's call
\* stack is exhausted (a RangeError)
MaxDepth == 4
\* children per element in the trees handed to the reconciler
MaxKids == 2
\* the counter n of the application state takes the values 0..MaxN
MaxN == 2
\* mounts of the application instance that allocate state
MaxMounts == 2
MaxRoutes == 3
MaxInner == 2
\* elements of the reactive list
MaxLen == 2

VARIABLES
  store,          \* raw objects: object id -> (key -> value)
  targetMap,      \* (object id, key) -> bucket: effects in insertion order
  activeEffect,   \* the active-effect slot
  registered,     \* user effects on which effect() has been called
  dom,            \* the live node of the mount point '#app' and its subtree
  cfg,            \* the AppConfig: [render, router], 0 when not supplied
  mounted,        \* createApp: mounted
  root,           \* createApp: root ("#app" or "null")
  oldTree,        \* createApp: oldTree (the committed VNode, VUndef for null)
  cleanupEffect,  \* createApp: cleanupEffect (the mount whose flag it clears, 0 for null)
  effectActive,   \* mount number -> the effectActive flag of that mount
  gen,            \* number of mounts that allocated state
  globalRouter,   \* the ambient router of Link ("router" or "null")
  location,       \* window.location.pathname
  popListener,    \* whether handlePopState is registered for 'popstate'
  isNavigating,   \* createRouter: isNavigating
  timers,         \* pending setTimeout callbacks of navigate
  regReads,       \* history: effect -> slots its own effect() run read
  everRead,       \* history: user effect -> slots any of its runs read
  log,            \* history: events of the last top-level call
  thrown,         \* history: the exception the last top-level call raised
  last,           \* history: the last top-level call and what held before it
  firstMount      \* history: what the first accepted mount rendered

vars == <<store, targetMap, activeEffect, registered, dom, cfg, mounted, root,
          oldTree, cleanupEffect, effectActive, gen, globalRouter, location,
          popListener, isNavigating, timers, regReads, everRead, log, thrown,
          last, firstMount>>

----------------------------------------------------------------------------
(***************************************************************************)
(* Identities.                                                             *)
(***************************************************************************)
NoEffect == [k |-> "none", n |-> 0]
UserEffect(n) == [k |-> "user", n |-> n]
UserEffectIds == 1..4
UserEffects == {UserEffect(n) : n \in UserEffectIds}
\* the effectFn closure that mount number g hands to effect()
RenderEffect(g) == [k |-> "render", n |-> g]
\* an effect of user code that reads routingState.currentPath
PathEffect == [k |-> "path", n |-> 0]
\* the effects of user code on a nested reactive object
NestedEffect(n) == [k |-> "nested", n |-> n]
NestedEffects == {NestedEffect(n) : n \in 1..2}
\* the effects of user code that read through wrappers of one object
ProxyEffect(n) == [k |-> "proxy", n |-> n]
ProxyEffects == {ProxyEffect(n) : n \in 1..2}
\* the effects of user code on a reactive list
ListEffect(n) == [k |-> "list", n |-> n]
ListEffects == {ListEffect(n) : n \in 1..2}
\* the effects of user code that write what effects read
CascadeEffect(n) == [k |-> "cascade", n |-> n]
CascadeEffects == {CascadeEffect(n) : n \in 1..3}
Effects ==
  UserEffects \cup {RenderEffect(g) : g \in 1..MaxMounts} \cup {PathEffect}
    \cup NestedEffects \cup ProxyEffects \cup ListEffects \cup CascadeEffects

\* the plain reactive object of the reactivity tests and its keys
Obj == <<"obj", 0>>
ObjKeys == {"p", "q"}
Vals == 0..MaxVal

\* the object given to reactive() in the nested test and the objects its
\* property user has held (the first from the literal, the later ones
\* assigned by user code)
Root == <<"root", 0>>
Inner(i) == <<"inner", i>>

\* the proxy reactive(Obj) taken as the object given to a second call,
\* reactive(reactive(Obj)): the target of the outer proxy's traps
Proxy1 == <<"proxy", 1>>

\* the array given to reactive() in the list test: its properties are
\* length and the indices "0", "1", ...; Undefined stands for the value
\* of an index that holds no element
List == <<"list", 0>>
Index(i) == ToString(i)
Undefined == -1

\* routingState of createRouter and the state object of mount number g
RS == <<"routingState", 0>>
StateObj(g) == <<"state", g>>

Slot(o, k) == <<o, k>>
NoError == ""

\* the bucket of a slot; an absent bucket enumerates as empty
Bucket(tm, s) == IF s \in DOMAIN tm THEN tm[s] ELSE <<>>
InSeq(x, sq) == \E i \in DOMAIN sq : sq[i] = x

----------------------------------------------------------------------------
(***************************************************************************)
(* 1. Reactivity system (miniVue.ts 25-100).                               *)
(***************************************************************************)

\* track(target, key): no-op without an active effect; otherwise the
\* bucket is created on demand and the active effect added (a Set).
track(st, o, k) ==
  IF st.activeEffect = NoEffect THEN st
  ELSE LET s == Slot(o, k)
           dep == Bucket(st.targetMap, s)
       IN IF InSeq(st.activeEffect, dep) THEN st
          ELSE [st EXCEPT !.targetMap =
                  [x \in DOMAIN st.targetMap \cup {s} |->
                     IF x = s THEN Append(dep, st.activeEffect)
                     ELSE st.targetMap[x]]]

\* the get trap of reactive(): read, then track.  `e' is the effect whose
\* body performs the read (NoEffect outside any effect body) and `mode'
\* says whether that body runs under effect() ("reg") or under trigger.
get(st, e, mode, o, k) ==
  LET note(s1) ==
        IF e = NoEffect THEN s1
        ELSE [s1 EXCEPT
                !.everRead[e] = IF e.k = "user" THEN @ \cup {Slot(o, k)} ELSE @,
                !.regReads[e] = IF mode = "reg" THEN @ \cup {Slot(o, k)} ELSE @,
                !.log = IF e.k = "user"
                        THEN Append(@, [t |-> "read", e |-> e, o |-> o, k |-> k,
                                        val |-> s1.store[o][k]])
                        ELSE @]
  IN note(track(st, o, k))

RECURSIVE Invoke(_, _, _, _)

\* dep.forEach(fn => fn()): a Set is enumerated live, so an effect added
\* to the bucket while it is being enumerated is visited too; nothing is
\* ever deleted from a bucket, so the enumeration is by position.
RECURSIVE forEach(_, _, _, _)
forEach(st, s, i, wid) ==
  IF st.thrown # NoError \/ i > Len(Bucket(st.targetMap, s)) THEN st
  ELSE forEach(Invoke(st, Bucket(st.targetMap, s)[i], "trig", wid), s, i + 1, wid)

\* a mutant of trigger: the bucket is enumerated from its last effect
RECURSIVE forEachBack(_, _, _, _)
forEachBack(st, s, i, wid) ==
  IF st.thrown # NoError \/ i < 1 THEN st
  ELSE forEachBack(Invoke(st, Bucket(st.targetMap, s)[i], "trig", wid), s, i - 1, wid)
triggerBackwards(st, o, k, wid) ==
  IF Slot(o, k) \notin DOMAIN st.targetMap THEN st
  ELSE forEachBack(st, Slot(o, k), Len(Bucket(st.targetMap, Slot(o, k))), wid)

\* trigger(target, key)
trigger(st, o, k, wid) ==
  IF Slot(o, k) \notin DOMAIN st.targetMap THEN st
  ELSE forEach(st, Slot(o, k), 1, wid)

\* a mutant of the set trap: triggers whether or not the value changed
setAlwaysTriggers(st, o, k, v) ==
  LET wid == Len(st.log) + 1
      s1 == [st EXCEPT
               !.store[o][k] = v,
               !.log = Append(@, [t |-> "write", o |-> o, k |-> k, v |-> v,
                                  changed |-> st.store[o][k] # v,
                                  readers |-> {e \in Effects :
                                                 Slot(o, k) \in st.regReads[e]}])]
  IN trigger(s1, o, k, wid)

\* a mutant of the set trap: the dependents are called before the value
\* is stored
setStoresLast(st, o, k, v) ==
  LET oldVal == st.store[o][k]
      wid == Len(st.log) + 1
      s1 == [st EXCEPT
               !.log = Append(@, [t |-> "write", o |-> o, k |-> k, v |-> v,
                                  changed |-> oldVal # v,
                                  readers |-> {e \in Effects :
                                                 Slot(o, k) \in st.regReads[e]}])]
      assign(s2) == IF s2.thrown # NoError THEN s2 ELSE [s2 EXCEPT !.store[o][k] = v]
  IN assign(IF oldVal # v THEN trigger(s1, o, k, wid) ELSE s1)

\* the set trap of reactive(): write first, trigger only on change
set(st, o, k, v) ==
  LET oldVal == st.store[o][k]
      wid == Len(st.log) + 1
      s1 == [st EXCEPT
               !.store[o][k] = v,
               !.log = Append(@, [t |-> "write", o |-> o, k |-> k, v |-> v,
                                  changed |-> oldVal # v,
                                  readers |-> {e \in Effects :
                                                 Slot(o, k) \in st.regReads[e]}])]
  IN IF oldVal # v THEN trigger(s1, o, k, wid) ELSE s1

throw(st, msg) == [st EXCEPT !.thrown = msg]

\* The set trap on an index of the reactive array: Reflect.set stores the
\* element and, for an index at or beyond the length, the array raises its
\* own length with it; then the trap triggers the index if its value
\* changed.
setIndex(st, i, v) ==
  LET oldVal == st.store[List][Index(i)]
      wid == Len(st.log) + 1
      s1 == [st EXCEPT
               !.store[List] = [@ EXCEPT ![Index(i)] = v,
                                         !["length"] = IF i >= @ THEN i + 1 ELSE @],
               !.log = Append(@, [t |-> "write", o |-> List, k |-> Index(i), v |-> v,
                                  changed |-> oldVal # v,
                                  readers |-> {e \in Effects :
                                                 Slot(List, Index(i)) \in st.regReads[e]}])]
  IN IF oldVal # v THEN trigger(s1, List, Index(i), wid) ELSE s1

\* list.push(v) through the proxy: the length is read, the element is set
\* at that index and the length is set to one more, each through a trap
push(st, v) ==
  LET len == st.store[List]["length"]
      setLen(s2) == IF s2.thrown # NoError THEN s2 ELSE set(s2, List, "length", len + 1)
  IN setLen(setIndex(get(st, NoEffect, "top", List, "length"), len, v))

\* list.length = 0 through the proxy: the array drops its elements
truncate(st) ==
  LET drop(s1) == [s1 EXCEPT !.store[List] =
                     [k \in DOMAIN @ |-> IF k = "length" THEN 0 ELSE Undefined]]
  IN set(drop(st), List, "length", 0)

\* The traps of the outer proxy of reactive(reactive(Obj)).  Its target is
\* the inner proxy, so Reflect.get and Reflect.set on the target run the
\* inner traps (get and set above, on the raw Obj), and track and trigger
\* of the outer traps are called with the inner proxy as target.
getWrapped(st, e, mode, k) ==
  LET note(s1) ==
        IF e = NoEffect \/ mode # "reg" THEN s1
        ELSE [s1 EXCEPT !.regReads[e] = @ \cup {Slot(Proxy1, k)}]
      outer(s2) == note(track(s2, Proxy1, k))
  IN outer(get(st, e, mode, Obj, k))

setWrapped(st, k, v) ==
  LET oldVal == st.store[Obj][k]
      outer(s2) ==
        IF s2.thrown # NoError THEN s2
        ELSE IF oldVal # v
        THEN trigger([s2 EXCEPT !.log = Append(@, [t |-> "write", o |-> Proxy1,
                                                   k |-> k, v |-> v, changed |-> TRUE,
                                                   readers |-> {e \in Effects :
                                                     Slot(Proxy1, k) \in s2.regReads[e]}])],
                     Proxy1, k, Len(s2.log) + 1)
        ELSE s2
  IN outer(set(get(st, NoEffect, "top", Obj, k), Obj, k, v))

----------------------------------------------------------------------------
(***************************************************************************)
(* 2. Virtual DOM (miniVue.ts 109-310).                                    *)
(*                                                                         *)
(* A VNode is a record; a bare string child is the record of kind "text"   *)
(* and a missing child (undefined) the record of kind "undef".  A property *)
(* value is [t, v]: a string ("str"), a function ("fn", v names the        *)
(* function object) or undefined ("undef").                                *)
(*                                                                         *)
(* A live node is a record too.  `stored' are the _on* properties that     *)
(* hold handler references, `listeners' the (event, handler) pairs         *)
(* attached with addEventListener, and `fresh' says that the node was      *)
(* created by the top-level call in progress (or just finished).           *)
(***************************************************************************)
EmptyFn == [x \in {} |-> ""]
NoRoute == ""

VUndef == [kind |-> "undef", tag |-> "", s |-> "", props |-> EmptyFn,
           children |-> <<>>, route |-> NoRoute]
VText(s) == [kind |-> "text", tag |-> "", s |-> s, props |-> EmptyFn,
             children |-> <<>>, route |-> NoRoute]
VElem(tag, props, children) ==
  [kind |-> "elem", tag |-> tag, s |-> "", props |-> props,
   children |-> children, route |-> NoRoute]

Str(v) == [t |-> "str", v |-> v]
Fn(v) == [t |-> "fn", v |-> v]
UndefVal == [t |-> "undef", v |-> "undefined"]

\* !node of JavaScript: undefined and the empty string are falsy
Falsy(vn) == vn.kind = "undef" \/ (vn.kind = "text" /\ vn.s = "")
\* arr[i] of JavaScript, i counted from 0
At(sq, i) == IF i + 1 \in DOMAIN sq THEN sq[i + 1] ELSE VUndef
\* props[key] of JavaScript
PropVal(props, k) == IF k \in DOMAIN props THEN props[k] ELSE UndefVal
\* key.startsWith('on') and key.slice(2).toLowerCase()
IsOn(k) == k \in {"onclick"}
EventName(k) == "click"
\* the order in which the property keys of an object are enumerated
PropOrder == <<"style", "onclick", "key">>

TextNode(s) ==
  [kind |-> "text", tag |-> "#text", text |-> s, attrs |-> EmptyFn,
   stored |-> EmptyFn, listeners |-> {}, children |-> <<>>, fresh |-> TRUE]

\* f with key k bound to v, and f without key k
With(f, k, v) == [x \in DOMAIN f \cup {k} |-> IF x = k THEN v ELSE f[x]]
Without(f, k) == [x \in DOMAIN f \ {k} |-> f[x]]

\* createElement(vnode)
RECURSIVE createElement(_)
createElement(vn) ==
  IF vn.kind = "text" THEN TextNode(vn.s)
  ELSE
    LET ks == DOMAIN vn.props \ {"key"}
        hs == {k \in ks : IsOn(k) /\ vn.props[k].t = "fn"}
    IN [kind |-> "elem", tag |-> vn.tag, text |-> "",
        attrs |-> [k \in ks \ hs |-> vn.props[k].v],
        stored |-> [k \in hs |-> vn.props[k].v],
        listeners |-> {<<EventName(k), vn.props[k].v>> : k \in hs},
        children |-> [i \in DOMAIN vn.children |-> createElement(vn.children[i])],
        fresh |-> TRUE]

\* the listeners attached in a live subtree
RECURSIVE ListenersIn(_)
ListenersIn(n) ==
  LET RECURSIVE upTo(_)
      upTo(i) == IF i = 0 THEN 0 ELSE upTo(i - 1) + ListenersIn(n.children[i])
  IN Cardinality(n.listeners) + upTo(Len(n.children))

\* A reconciliation step works on r = [node, log, thrown]: the live node
\* operated on, the surface calls made so far and the exception raised.
Dom(op, lost) == [t |-> "dom", op |-> op, lost |-> lost]
Did(r, n, op, lost) == [r EXCEPT !.node = n, !.log = Append(@, Dom(op, lost))]
Raise(r, msg) == [r EXCEPT !.thrown = msg]

\* parent.appendChild(child): a text node takes no children
appendChild(r, child) ==
  IF r.node.kind = "text" THEN Raise(r, "HierarchyRequestError")
  ELSE Did(r, [r.node EXCEPT !.children = Append(@, child)], "append", 0)

RemoveAt(sq, i) == [j \in 1..(Len(sq) - 1) |-> IF j < i THEN sq[j] ELSE sq[j + 1]]

\* the first loop of updateProps, for one key of oldProps
removeOldProp(r, key, newProps) ==
  IF r.thrown # NoError \/ key \in DOMAIN newProps THEN r
  ELSE IF IsOn(key)
  THEN IF key \in DOMAIN r.node.stored
       THEN Did(r, [r.node EXCEPT
                      !.listeners = @ \ {<<EventName(key), r.node.stored[key]>>},
                      !.stored = Without(@, key)],
                "removeListener", 0)
       ELSE r
  ELSE IF key # "key"
  THEN IF r.node.kind = "text" THEN Raise(r, "TypeError")
       ELSE Did(r, [r.node EXCEPT !.attrs = Without(@, key)], "removeAttr", 0)
  ELSE r

\* a mutant of the second loop: the handler is re-attached whether or not
\* the reference changed
applyNewPropAlways(r, key, newProps, oldProps) ==
  IF r.thrown # NoError \/ key = "key" THEN r
  ELSE IF IsOn(key) /\ newProps[key].t = "fn"
  THEN LET had == key \in DOMAIN r.node.stored
           r1 == IF had
                 THEN Did(r, [r.node EXCEPT !.listeners =
                                @ \ {<<EventName(key), r.node.stored[key]>>}],
                          "removeListener", 0)
                 ELSE r
       IN Did(r1, [r1.node EXCEPT
                    !.listeners = @ \cup {<<EventName(key), newProps[key].v>>},
                    !.stored = With(@, key, newProps[key].v)],
              "addListener", 0)
  ELSE IF PropVal(oldProps, key) # newProps[key]
  THEN IF r.node.kind = "text" THEN Raise(r, "TypeError")
       ELSE Did(r, [r.node EXCEPT !.attrs = With(@, key, newProps[key].v)],
                "setAttr", 0)
  ELSE r

\* the second loop of updateProps, for one key of newProps
applyNewProp(r, key, newProps, oldProps) ==
  IF r.thrown # NoError \/ key = "key" THEN r
  ELSE IF IsOn(key) /\ newProps[key].t = "fn"
  THEN LET had == key \in DOMAIN r.node.stored
       IN IF had /\ r.node.stored[key] = newProps[key].v THEN r
          ELSE LET r1 == IF had
                         THEN Did(r, [r.node EXCEPT !.listeners =
                                        @ \ {<<EventName(key), r.node.stored[key]>>}],
                                  "removeListener", 0)
                         ELSE r
               IN Did(r1, [r1.node EXCEPT
                            !.listeners = @ \cup {<<EventName(key), newProps[key].v>>},
                            !.stored = With(@, key, newProps[key].v)],
                      "addListener", 0)
  ELSE IF PropVal(oldProps, key) # newProps[key]
  THEN IF r.node.kind = "text" THEN Raise(r, "TypeError")
       ELSE Did(r, [r.node EXCEPT !.attrs = With(@, key, newProps[key].v)],
                "setAttr", 0)
  ELSE r

\* updateProps(element, newProps, oldProps); r.node is the element
updateProps(r, newProps, oldProps) ==
  LET RECURSIVE removeFrom(_, _)
      removeFrom(x, i) ==
        IF i > Len(PropOrder) THEN x
        ELSE removeFrom(IF PropOrder[i] \in DOMAIN oldProps
                        THEN removeOldProp(x, PropOrder[i], newProps) ELSE x, i + 1)
      RECURSIVE applyFrom(_, _)
      applyFrom(x, i) ==
        IF i > Len(PropOrder) THEN x
        ELSE applyFrom(IF PropOrder[i] \in DOMAIN newProps
                       THEN applyNewProp(x, PropOrder[i], newProps, oldProps) ELSE x,
                       i + 1)
  IN applyFrom(removeFrom(r, 1), 1)

\* currentChild.textContent = s (s is not empty here)
setTextContent(n, s) ==
  IF n.kind = "text" THEN [n EXCEPT !.text = s]
  ELSE [n EXCEPT !.children = <<TextNode(s)>>]

RECURSIVE updateElement(_, _, _, _)

\* updateChildren(parent, newChildren, oldChildren); r.node is the parent
updateChildren(r, newChildren, oldChildren) ==
  LET maxLength == IF Len(newChildren) > Len(oldChildren)
                   THEN Len(newChildren) ELSE Len(oldChildren)
      RECURSIVE loop(_, _)
      loop(x, i) ==
        IF i >= maxLength \/ x.thrown # NoError THEN x
        ELSE loop(updateElement(x, At(newChildren, i), At(oldChildren, i), i), i + 1)
  IN loop(r, 0)

\* updateElement(parent, newNode, oldNode, index); r.node is the parent
updateElement(r, newNode, oldNode, index) ==
  LET has == index + 1 \in DOMAIN r.node.children
      currentChild == r.node.children[index + 1]
  IN
  IF r.thrown # NoError THEN r
  \* Case 1: no old node
  ELSE IF Falsy(oldNode)
  THEN IF newNode.kind = "undef" THEN Raise(r, "TypeError")
       ELSE appendChild([r EXCEPT !.log = Append(@, Dom("create", 0))],
                        createElement(newNode))
  \* Case 2: no new node
  ELSE IF Falsy(newNode)
  THEN IF has
       THEN Did(r, [r.node EXCEPT !.children = RemoveAt(@, index + 1)],
                "remove", ListenersIn(currentChild))
       ELSE r
  \* Case 3: both are text
  ELSE IF newNode.kind = "text" /\ oldNode.kind = "text"
  THEN IF newNode.s # oldNode.s /\ has
       THEN Did(r, [r.node EXCEPT !.children[index + 1] = setTextContent(@, newNode.s)],
                "text", 0)
       ELSE r
  \* Case 4: different node types or different tags
  ELSE IF newNode.kind # oldNode.kind \/ newNode.tag # oldNode.tag
  THEN LET r1 == [r EXCEPT !.log = Append(@, Dom("create", 0))]
       IN IF has
          THEN Did(r1, [r.node EXCEPT !.children[index + 1] = createElement(newNode)],
                   "replace", ListenersIn(currentChild))
          ELSE appendChild(r1, createElement(newNode))
  \* Case 5: the same tag, updated in place
  ELSE IF has
  THEN LET kids(r1) == IF r1.thrown # NoError THEN r1
                         ELSE updateChildren(r1, newNode.children, oldNode.children)
           back(r2) == [r2 EXCEPT !.node =
                          [r.node EXCEPT !.children[index + 1] = r2.node]]
       IN back(kids(updateProps([r EXCEPT !.node = currentChild],
                                newNode.props, oldNode.props)))
  ELSE r

\* cleanupElement(element): the listeners stored on the element and on its
\* descendants are removed, one surface call per stored handler
RECURSIVE cleanupElement(_)
cleanupElement(r) ==
  IF r.node.kind # "elem" THEN r
  ELSE
    LET RECURSIVE keysFrom(_, _)
        keysFrom(x, i) ==
          IF i > Len(PropOrder) THEN x
          ELSE keysFrom(IF PropOrder[i] \in DOMAIN x.node.stored
                        THEN Did(x, [x.node EXCEPT
                                       !.listeners = @ \ {<<EventName(PropOrder[i]),
                                                            x.node.stored[PropOrder[i]]>>},
                                       !.stored = Without(@, PropOrder[i])],
                                 "removeListener", 0)
                        ELSE x, i + 1)
        RECURSIVE kidsFrom(_, _)
        kidsFrom(x, i) ==
          IF i > Len(x.node.children) THEN x
          ELSE LET back(c) == [c EXCEPT !.node =
                                 [x.node EXCEPT !.children[i] = c.node]]
               IN kidsFrom(back(cleanupElement([x EXCEPT !.node = x.node.children[i]])),
                           i + 1)
    IN kidsFrom(keysFrom(r, 1), 1)

\* a live node without the history flag `fresh', for comparing structure
RECURSIVE Plain(_)
Plain(n) ==
  [n EXCEPT !.fresh = FALSE,
            !.children = [i \in DOMAIN n.children |-> Plain(n.children[i])]]

\* whether every node of a live subtree was created by the current call
RECURSIVE AllFresh(_)
AllFresh(n) == n.fresh /\ \A i \in DOMAIN n.children : AllFresh(n.children[i])

----------------------------------------------------------------------------
(***************************************************************************)
(* 3. Components, router and render loop (miniVue.ts 319-510, 565-650).    *)
(***************************************************************************)

\* The application state the state factory config.data() produces.  msg
\* stands for a string: 0 for "a", 1 for "b".
InitialData == [n |-> 0, show |-> 0, msg |-> 0]
DataKeys == {"n", "show", "msg"}
DataVals(k) == IF k = "n" THEN 0..MaxN ELSE 0..1
MsgText(m) == IF m = 0 THEN "a" ELSE "b"

\* VStack(...children) (miniVue.ts 340-348)
VStack(children) == VElem("div", ("style" :> Str("vstack")), children)

\* The component functions (ctx) => VNode handed to the framework as
\* config.render or as a route's component (the inputs):
\*   1  VStack(Text(`Count: ${ctx.n}`))          (miniVue.test.ts 332-338)
\*   2  ctx.show ? VStack(Text(ctx.msg)) : VStack(Text('hidden'))
\*   3  VStack(...n times Text('x'))
\*   4  VStack(Text('About'), Text(ctx.msg))
\*   5  VStack(Text('Not found'))
\*   6  VStack(Text('Page'))
\* componentTree is the VNode returned for state d, componentReads the
\* properties of the state proxy read on the way, in order.
componentTree(c, d) ==
  CASE c = 1 -> VStack(<<VText("Count: " \o ToString(d.n))>>)
    [] c = 2 -> IF d.show = 1 THEN VStack(<<VText(MsgText(d.msg))>>)
                ELSE VStack(<<VText("hidden")>>)
    [] c = 3 -> VStack([i \in 1..d.n |-> VText("x")])
    [] c = 4 -> VStack(<<VText("About"), VText(MsgText(d.msg))>>)
    [] c = 5 -> VStack(<<VText("Not found")>>)
    [] OTHER -> VStack(<<VText("Page")>>)

componentReads(c, d) ==
  CASE c = 1 -> <<"n">>
    [] c = 2 -> IF d.show = 1 THEN <<"show", "msg">> ELSE <<"show">>
    [] c = 3 -> <<"n">>
    [] c = 4 -> <<"msg">>
    [] OTHER -> <<>>

\* the route tables handed to createRouter
Paths == {"/", "/about", "/zzz"}
RouteTables ==
  << <<[path |-> "/", component |-> 6], [path |-> "/about", component |-> 4]>>,
     <<[path |-> "/", component |-> 3], [path |-> "/about", component |-> 6],
       [path |-> "*", component |-> 5]>> >>
\* The tables given to createRouter on its own: every table of at most
\* MaxRoutes routes over the paths of the router tests, '*' included, so
\* that a path occurs twice, a wildcard precedes an exact match, and the
\* table is empty (miniVue.test.ts 248-260, 285-289).
RoutePaths == {"/", "/about", "*"}
RECURSIVE SeqOf(_)
SeqOf(S) ==
  IF S = {} THEN <<>>
  ELSE LET x == CHOOSE y \in S : TRUE IN <<x>> \o SeqOf(S \ {x})
TestTables ==
  SeqOf(UNION {[1..L -> {[path |-> p, component |-> 6] : p \in RoutePaths}] :
                 L \in 0..MaxRoutes})
AllTables == RouteTables \o TestTables
routes == AllTables[cfg.router]

\* a mutant of findRoute: one pass that stops at the first route that is
\* the path or the wildcard
findRouteOnePass(rt, path) ==
  LET hit == {i \in DOMAIN rt : rt[i].path = path \/ rt[i].path = "*"}
  IN IF hit # {} THEN CHOOSE i \in hit : \A j \in hit : i <= j ELSE 0

\* findRoute(path): the index of the route found, 0 for undefined
findRoute(rt, path) ==
  LET exact == {i \in DOMAIN rt : rt[i].path = path}
      wild == {i \in DOMAIN rt : rt[i].path = "*"}
      First(S) == CHOOSE i \in S : \A j \in S : i <= j
  IN IF exact # {} THEN First(exact)
     ELSE IF wild # {} THEN First(wild) ELSE 0

\* the built-in tree rendered when no route matches (miniVue.ts 579-583)
NotFoundTree ==
  VElem("div", ("style" :> Str("notfound")), <<VText("404 - Page Not Found")>>)

\* the component reading the properties ks of the state proxy, one get each
RECURSIVE readAll(_, _, _, _, _, _)
readAll(st, e, mode, o, ks, i) ==
  IF i > Len(ks) THEN st ELSE readAll(get(st, e, mode, o, ks[i]), e, mode, o, ks, i + 1)

\* a mutant of the full replacement: the mount point is not cleared
fullReplaceNoClear(r, newTree) ==
  appendChild([r EXCEPT !.log = Append(@, Dom("create", 0))], createElement(newTree))

\* the full replacement of render (miniVue.ts 597-605); r.node is root
fullReplace(r, newTree) ==
  LET RECURSIVE kidsFrom(_, _)
      kidsFrom(x, i) ==
        IF i > Len(x.node.children) THEN x
        ELSE LET back(c) == [c EXCEPT !.node =
                               [x.node EXCEPT !.children[i] = c.node]]
             IN kidsFrom(back(cleanupElement([x EXCEPT !.node = x.node.children[i]])),
                         i + 1)
      clear(r1) == Did(r1, [r1.node EXCEPT !.children = <<>>], "clear",
                       ListenersIn(r1.node))
      fill(r2) == appendChild([r2 EXCEPT !.log = Append(@, Dom("create", 0))],
                              createElement(newTree))
  IN fill(clear(kidsFrom(r, 1)))

\* a mutant of the commit policy: the previous tree's route is not compared
commitIgnoresRoute(st, newTree, currentRoute) ==
  LET hadOld == st.oldTree.kind # "undef"
      s0 == [st EXCEPT !.log = Append(@, [t |-> "render", hadOld |-> hadOld,
                                          oldRoute |-> st.oldTree.route,
                                          curRoute |-> currentRoute])]
      r0 == [node |-> s0.dom, log |-> s0.log, thrown |-> NoError]
      stamped == IF cfg.router # 0 /\ currentRoute # NoRoute
                 THEN [newTree EXCEPT !.route = currentRoute] ELSE newTree
      done(r1) ==
        IF r1.thrown # NoError
        THEN [s0 EXCEPT !.dom = r1.node, !.log = r1.log, !.thrown = r1.thrown]
        ELSE [s0 EXCEPT !.dom = r1.node, !.log = r1.log, !.oldTree = stamped]
  IN done(IF ~hadOld THEN fullReplace(r0, newTree)
          ELSE updateElement(r0, newTree, st.oldTree, 0))

\* a mutant of the commit policy: every render replaces the content
commitAlwaysReplaces(st, newTree, currentRoute) ==
  LET hadOld == st.oldTree.kind # "undef"
      s0 == [st EXCEPT !.log = Append(@, [t |-> "render", hadOld |-> hadOld,
                                          oldRoute |-> st.oldTree.route,
                                          curRoute |-> currentRoute])]
      r0 == [node |-> s0.dom, log |-> s0.log, thrown |-> NoError]
      stamped == IF cfg.router # 0 /\ currentRoute # NoRoute
                 THEN [newTree EXCEPT !.route = currentRoute] ELSE newTree
      done(r1) ==
        IF r1.thrown # NoError
        THEN [s0 EXCEPT !.dom = r1.node, !.log = r1.log, !.thrown = r1.thrown]
        ELSE [s0 EXCEPT !.dom = r1.node, !.log = r1.log, !.oldTree = stamped]
  IN done(fullReplace(r0, newTree))

\* the commit of render (miniVue.ts 592-616): full replacement for a first
\* render or a changed route, reconciliation otherwise; then the route is
\* stamped on the tree, which becomes oldTree
commit(st, newTree, currentRoute) ==
  LET hadOld == st.oldTree.kind # "undef"
      isRouteChange == cfg.router # 0 /\ hadOld /\ st.oldTree.route # currentRoute
      s0 == [st EXCEPT !.log = Append(@, [t |-> "render", hadOld |-> hadOld,
                                          oldRoute |-> st.oldTree.route,
                                          curRoute |-> currentRoute])]
      r0 == [node |-> s0.dom, log |-> s0.log, thrown |-> NoError]
      stamped == IF cfg.router # 0 /\ currentRoute # NoRoute
                 THEN [newTree EXCEPT !.route = currentRoute] ELSE newTree
      done(r1) ==
        IF r1.thrown # NoError
        THEN [s0 EXCEPT !.dom = r1.node, !.log = r1.log, !.thrown = r1.thrown]
        ELSE [s0 EXCEPT !.dom = r1.node, !.log = r1.log, !.oldTree = stamped]
  IN done(IF ~hadOld \/ isRouteChange THEN fullReplace(r0, newTree)
          ELSE updateElement(r0, newTree, st.oldTree, 0))

\* the state object of mount number g; the object of an earlier mount has
\* left the store (see Unreachable) and stands as config.data() made it
stateOf(st, g) ==
  IF StateObj(g) \in DOMAIN st.store THEN st.store[StateObj(g)] ELSE InitialData

\* a mutant of render: without render function and router the 404 tree is
\* committed instead of raising
renderDefaultsTo404(st, g, mode) ==
  IF ~st.mounted \/ st.root = "null" THEN st
  ELSE commit(st, NotFoundTree, NoRoute)

\* the closure render of mount number g (miniVue.ts 565-617)
render(st, g, mode) ==
  LET e == RenderEffect(g)
      d == stateOf(st, g)
      \* if (config.router): the path is read and the route looked up
      route == IF cfg.router # 0
               THEN findRoute(routes, st.store[RS]["currentPath"]) ELSE 0
      \* the component called with the state proxy, 0 when none is called
      comp == IF cfg.router # 0
              THEN (IF route # 0 THEN routes[route].component ELSE 0)
              ELSE cfg.render
      newTree == IF comp # 0 THEN componentTree(comp, d) ELSE NotFoundTree
      reads == IF comp # 0 THEN componentReads(comp, d) ELSE <<>>
      currentRoute == IF route # 0 THEN routes[route].path ELSE NoRoute
  IN
  IF ~st.mounted \/ st.root = "null" THEN st
  ELSE IF cfg.router = 0 /\ cfg.render = 0
  THEN throw(st, "Either render function or router must be provided")
  ELSE commit(readAll(IF cfg.router # 0
                      THEN get(st, e, mode, RS, "currentPath") ELSE st,
                      e, mode, StateObj(g), reads, 1),
              newTree, currentRoute)

\* a mutant of the render effect: the effectActive guard is missing
effectFnUnguarded(st, g, mode) ==
  render(IF cfg.router # 0
         THEN get(st, RenderEffect(g), mode, RS, "currentPath") ELSE st,
         g, mode)

\* the closure effectFn of mount number g (miniVue.ts 624-629, 640-643)
effectFn(st, g, mode) ==
  IF ~st.effectActive[g] THEN st
  ELSE render(IF cfg.router # 0
              THEN get(st, RenderEffect(g), mode, RS, "currentPath") ELSE st,
              g, mode)

----------------------------------------------------------------------------
(***************************************************************************)
(* 4. Effect runner (miniVue.ts 96-100) and the effect functions.          *)
(***************************************************************************)

\* The effect functions the reactivity tests register (the inputs):
\*   1  reads p                                  (miniVue.test.ts 74-77)
\*   2  reads p and, only when p = 1, reads q    (a conditional dependency)
\*   3  reads q and writes its value to p        (an effect that writes)
\*   4  reads q and throws when q = MaxVal       (miniVue.test.ts 428-432)
userBody(st, e, mode) ==
  CASE e.n = 1 -> get(st, e, mode, Obj, "p")
    [] e.n = 2 -> LET s1 == get(st, e, mode, Obj, "p")
                  IN IF s1.store[Obj]["p"] = 1
                     THEN get(s1, e, mode, Obj, "q") ELSE s1
    [] e.n = 3 -> LET s1 == get(st, e, mode, Obj, "q")
                  IN set(s1, Obj, "p", s1.store[Obj]["q"])
    [] OTHER   -> LET s1 == get(st, e, mode, Obj, "q")
                  IN IF s1.store[Obj]["q"] = MaxVal
                     THEN throw(s1, "Count too high") ELSE s1

\* The effect function registered on the router state (miniVue.test.ts
\* 271-274), here one that rejects a path as the effect of miniVue.test.ts
\* 428-432 rejects a count.
pathBody(st, e, mode) ==
  LET check(s1) == IF s1.store[RS]["currentPath"] = "/zzz"
                   THEN throw(s1, "Unknown path") ELSE s1
  IN check(get(st, e, mode, RS, "currentPath"))

\* The effect functions on the nested object:
\*   1  reads state.user.name    (miniVue.test.ts 95-98)
\*   2  reads state.other        (an effect that never reads the name)
\* The get trap returns reactive(res) for an object: a proxy of the very
\* object stored, so the next read is tracked on that object.
nestedBody(st, e, mode) ==
  LET name(s1) == get(s1, e, mode, s1.store[Root]["user"], "name")
  IN IF e.n = 1 THEN name(get(st, e, mode, Root, "user"))
     ELSE get(st, e, mode, Root, "other")

\* The effect functions that read property p of one object through
\* wrappers:
\*   1  through reactive(Obj); a second wrapper made by another call
\*      reactive(Obj), or returned by a nested read, has the same traps
\*      on the same target
\*   2  through reactive(reactive(Obj))
proxyBody(st, e, mode) ==
  IF e.n = 1 THEN get(st, e, mode, Obj, "p") ELSE getWrapped(st, e, mode, "p")

\* The effect functions on the list:
\*   1  reads list.length
\*   2  reads list.length and then every element (list.forEach)
listBody(st, e, mode) ==
  LET RECURSIVE each(_, _)
      each(s1, i) ==
        IF i >= s1.store[List]["length"] THEN s1
        ELSE each(get(s1, e, mode, List, Index(i)), i + 1)
  IN IF e.n = 1 THEN get(st, e, mode, List, "length")
     ELSE each(get(st, e, mode, List, "length"), 0)

\* The effect functions that write a property effects read; each body is
\* straight-line code:
\*   1  state.p = state.q            (writes what effects 2 and 3 read)
\*   2  state.q = state.p            (writes what effect 1 reads)
\*   3  state.p = (state.p + 1) % (MaxVal + 1)   (writes what it reads)
cascadeBody(st, e, mode) ==
  LET from == IF e.n = 1 THEN "q" ELSE "p"
      to == IF e.n = 2 THEN "q" ELSE "p"
      write(s1) == set(s1, Obj, to,
                       IF e.n = 3 THEN (s1.store[Obj]["p"] + 1) % (MaxVal + 1)
                       ELSE s1.store[Obj][from])
  IN write(get(st, e, mode, Obj, from))

body(st, e, mode) ==
  IF e.k = "user" THEN userBody(st, e, mode)
  ELSE IF e.k = "cascade" THEN cascadeBody(st, e, mode)
  ELSE IF e.k = "list" THEN listBody(st, e, mode)
  ELSE IF e.k = "proxy" THEN proxyBody(st, e, mode)
  ELSE IF e.k = "path" THEN pathBody(st, e, mode)
  ELSE IF e.k = "nested" THEN nestedBody(st, e, mode)
  ELSE effectFn(st, e.n, mode)

\* one call fn() of an effect function; `by' is the log index of the write
\* whose trigger makes the call (0 for the call made by effect()).
Invoke(st, e, mode, by) ==
  IF st.thrown # NoError THEN st
  ELSE IF st.depth >= MaxDepth THEN throw(st, "RangeError")
  ELSE LET s0 == [st EXCEPT !.depth = @ + 1,
                            !.log = Append(@, [t |-> "run", e |-> e, by |-> by,
                                               slot |-> st.activeEffect])]
           leave(s1) == [s1 EXCEPT !.depth = st.depth]
       IN leave(body(s0, e, mode))

\* effect(fn): set the slot, run, clear the slot (not reached when fn throws)
effect(st, e) ==
  LET clear(s1) ==
        IF s1.thrown # NoError THEN s1 ELSE [s1 EXCEPT !.activeEffect = NoEffect]
  IN clear(Invoke([st EXCEPT !.activeEffect = e], e, "reg", 0))

----------------------------------------------------------------------------
(***************************************************************************)
(* 5. Router operations and application shell (miniVue.ts 474-506,         *)
(*    543-563, 653-677).                                                   *)
(***************************************************************************)

\* a mutant of navigate: the in-flight flag is not consulted
navigateUnthrottled(st, path) ==
  LET s1 == get(st, NoEffect, "top", RS, "currentPath")
  IN IF s1.store[RS]["currentPath"] = path THEN s1
     ELSE LET s2 == [s1 EXCEPT !.isNavigating = TRUE,
                               !.location = path,
                               !.log = Append(@, [t |-> "push", path |-> path])]
              setTimeout(s3) ==
                IF s3.thrown # NoError THEN s3 ELSE [s3 EXCEPT !.timers = @ + 1]
          IN setTimeout(set(s2, RS, "currentPath", path))

\* a mutant of navigate: the path is pushed to the history after the write
navigatePushesLast(st, path) ==
  LET s1 == get(st, NoEffect, "top", RS, "currentPath")
  IN IF s1.isNavigating \/ s1.store[RS]["currentPath"] = path THEN s1
     ELSE LET pushState(s3) ==
                IF s3.thrown # NoError THEN s3
                ELSE [s3 EXCEPT !.location = path,
                                !.log = Append(@, [t |-> "push", path |-> path]),
                                !.timers = @ + 1]
          IN pushState(set([s1 EXCEPT !.isNavigating = TRUE], RS, "currentPath", path))

\* router.navigate(path)
navigate(st, path) ==
  LET s1 == get(st, NoEffect, "top", RS, "currentPath")
  IN IF s1.isNavigating \/ s1.store[RS]["currentPath"] = path THEN s1
     ELSE LET s2 == [s1 EXCEPT !.isNavigating = TRUE,
                               !.location = path,
                               !.log = Append(@, [t |-> "push", path |-> path])]
              setTimeout(s3) ==
                IF s3.thrown # NoError THEN s3 ELSE [s3 EXCEPT !.timers = @ + 1]
          IN setTimeout(set(s2, RS, "currentPath", path))

\* handlePopState: the listener of the host's back/forward notification
handlePopState(st) ==
  LET s1 == get(st, NoEffect, "top", RS, "currentPath")
  IN IF s1.store[RS]["currentPath"] # s1.location
     THEN set(s1, RS, "currentPath", s1.location) ELSE s1

\* a mutant of destroy: the listener stays registered
destroyKeepsListener(st) == st

\* router.destroy()
destroy(st) == [st EXCEPT !.popListener = FALSE]

\* The state object that leaves the model when a mount allocates a new
\* state: user code holds the new proxy from then on, and the render
\* effect of the previous mount returns at its effectActive guard before
\* it reads anything, so the previous object and its buckets (entries of
\* the WeakMap targetMap) are never read or written again.
Unreachable(st) == {StateObj(st.gen)}

\* a mutant of mount: the mounted check is missing
mountUnguarded(st, selector) ==
  IF selector # "#app" THEN throw(st, "Container not found")
  ELSE
    LET g == st.gen + 1
        s1 == [st EXCEPT
                 !.root = "#app", !.mounted = TRUE, !.gen = g,
                 !.store = [o \in (DOMAIN st.store \ Unreachable(st))
                                    \cup {StateObj(g)} |->
                              IF o = StateObj(g) THEN InitialData ELSE st.store[o]],
                 !.targetMap = [x \in {y \in DOMAIN st.targetMap :
                                         y[1] \notin Unreachable(st)} |-> st.targetMap[x]],
                 !.globalRouter = IF cfg.router # 0 THEN "router" ELSE @,
                 !.effectActive = With(@, g, TRUE)]
        keep(s2) == IF s2.thrown # NoError THEN s2 ELSE [s2 EXCEPT !.cleanupEffect = g]
    IN keep(effect(s1, RenderEffect(g)))

\* app.mount(selector)
mount(st, selector) ==
  IF st.mounted THEN throw(st, "App is already mounted")
  ELSE IF selector # "#app" THEN throw(st, "Container not found")
  ELSE
    LET g == st.gen + 1
        s1 == [st EXCEPT
                 !.root = "#app", !.mounted = TRUE, !.gen = g,
                 !.store = [o \in (DOMAIN st.store \ Unreachable(st))
                                    \cup {StateObj(g)} |->
                              IF o = StateObj(g) THEN InitialData ELSE st.store[o]],
                 !.targetMap = [x \in {y \in DOMAIN st.targetMap :
                                         y[1] \notin Unreachable(st)} |-> st.targetMap[x]],
                 !.globalRouter = IF cfg.router # 0 THEN "router" ELSE @,
                 !.effectActive = With(@, g, TRUE)]
        keep(s2) == IF s2.thrown # NoError THEN s2 ELSE [s2 EXCEPT !.cleanupEffect = g]
    IN keep(effect(s1, RenderEffect(g)))

\* a mutant of unmount: the previous tree is kept
unmountKeepsOldTree(st) ==
  IF ~st.mounted THEN st
  ELSE [st EXCEPT !.mounted = FALSE, !.cleanupEffect = 0, !.root = "null",
                  !.dom.children = <<>>,
                  !.effectActive = IF st.cleanupEffect # 0
                                   THEN With(@, st.cleanupEffect, FALSE) ELSE @,
                  !.popListener = FALSE,
                  !.globalRouter = "null"]

\* a mutant of unmount: the render effect is taken out of its buckets
unmountPrunes(st) ==
  IF ~st.mounted THEN st
  ELSE
    LET s1 == [st EXCEPT
                 !.mounted = FALSE,
                 !.effectActive = IF st.cleanupEffect # 0
                                  THEN With(@, st.cleanupEffect, FALSE) ELSE @,
                 !.cleanupEffect = 0,
                 !.targetMap = [x \in DOMAIN @ |->
                                  SelectSeq(@[x], LAMBDA e : e # RenderEffect(st.gen))]]
        s2 == IF cfg.router # 0
              THEN [destroy(s1) EXCEPT !.globalRouter = "null"] ELSE s1
        s3 == IF s2.root # "null"
              THEN [s2 EXCEPT !.dom.children = <<>>,
                              !.log = Append(@, Dom("clear", ListenersIn(s2.dom))),
                              !.root = "null"]
              ELSE s2
    IN [s3 EXCEPT !.oldTree = VUndef]

\* a mutant of unmount: the ambient router is cleared only when it is the
\* router of this app
unmountOwnRouter(st) ==
  IF ~st.mounted THEN st
  ELSE
    LET s1 == [st EXCEPT
                 !.mounted = FALSE,
                 !.effectActive = IF st.cleanupEffect # 0
                                  THEN With(@, st.cleanupEffect, FALSE) ELSE @,
                 !.cleanupEffect = 0]
        s2 == IF cfg.router # 0
              THEN [destroy(s1) EXCEPT
                      !.globalRouter = IF @ = "router" THEN "null" ELSE @]
              ELSE s1
        s3 == IF s2.root # "null"
              THEN [s2 EXCEPT !.dom.children = <<>>,
                              !.log = Append(@, Dom("clear", ListenersIn(s2.dom))),
                              !.root = "null"]
              ELSE s2
    IN [s3 EXCEPT !.oldTree = VUndef]

\* app.unmount()
unmount(st) ==
  IF ~st.mounted THEN st
  ELSE
    LET s1 == [st EXCEPT
                 !.mounted = FALSE,
                 !.effectActive = IF st.cleanupEffect # 0
                                  THEN With(@, st.cleanupEffect, FALSE) ELSE @,
                 !.cleanupEffect = 0]
        s2 == IF cfg.router # 0
              THEN [destroy(s1) EXCEPT !.globalRouter = "null"] ELSE s1
        s3 == IF s2.root # "null"
              THEN [s2 EXCEPT !.dom.children = <<>>,
                              !.log = Append(@, Dom("clear", ListenersIn(s2.dom))),
                              !.root = "null"]
              ELSE s2
    IN [s3 EXCEPT !.oldTree = VUndef]

----------------------------------------------------------------------------
(***************************************************************************)
(* Top-level calls.  Begin is the program state as a call starts (no live  *)
(* node is fresh any more); Commit stores the state the call leaves.       *)
(***************************************************************************)
Begin ==
  [store |-> store, targetMap |-> targetMap, activeEffect |-> activeEffect,
   dom |-> Plain(dom), mounted |-> mounted, root |-> root, oldTree |-> oldTree,
   cleanupEffect |-> cleanupEffect, effectActive |-> effectActive, gen |-> gen,
   globalRouter |-> globalRouter, location |-> location,
   popListener |-> popListener, isNavigating |-> isNavigating, timers |-> timers,
   regReads |-> regReads, everRead |-> everRead,
   log |-> <<>>, thrown |-> NoError, depth |-> 0]

Commit(st) ==
  /\ store' = st.store
  /\ targetMap' = st.targetMap
  /\ activeEffect' = st.activeEffect
  /\ dom' = st.dom
  /\ mounted' = st.mounted
  /\ root' = st.root
  /\ oldTree' = st.oldTree
  /\ cleanupEffect' = st.cleanupEffect
  /\ effectActive' = st.effectActive
  /\ gen' = st.gen
  /\ globalRouter' = st.globalRouter
  /\ location' = st.location
  /\ popListener' = st.popListener
  /\ isNavigating' = st.isNavigating
  /\ timers' = st.timers
  /\ regReads' = st.regReads
  /\ everRead' = st.everRead
  /\ log' = st.log
  /\ thrown' = st.thrown

\* the live node of '<div id="app"></div>'
EmptyRoot ==
  [kind |-> "elem", tag |-> "div", text |-> "", attrs |-> ("id" :> "app"),
   stored |-> EmptyFn, listeners |-> {}, children |-> <<>>, fresh |-> FALSE]

\* the state before anything is constructed
InitCommon ==
  /\ targetMap = <<>>
  /\ activeEffect = NoEffect
  /\ registered = {}
  /\ dom = EmptyRoot
  /\ mounted = FALSE
  /\ root = "null"
  /\ oldTree = VUndef
  /\ cleanupEffect = 0
  /\ effectActive = <<>>
  /\ gen = 0
  /\ globalRouter = "null"
  /\ location = "/"
  /\ isNavigating = FALSE
  /\ timers = 0
  /\ regReads = [e \in Effects |-> {}]
  /\ everRead = [e \in Effects |-> {}]
  /\ log = <<>>
  /\ thrown = NoError
  /\ last = [op |-> "init"]
  /\ firstMount = [done |-> FALSE, path |-> "", thrown |-> NoError, content |-> <<>>]

(***************************************************************************)
(* The reactivity system on its own: user code registers effects on a      *)
(* plain reactive object and writes its properties.                        *)
(***************************************************************************)
InitReact ==
  /\ InitCommon
  /\ cfg = [render |-> 0, router |-> 0]
  /\ popListener = FALSE
  /\ store = (Obj :> [k \in ObjKeys |-> 0])

\* user code calls effect(fn)
RegisterEffect(n) ==
  /\ UserEffect(n) \notin registered
  /\ registered' = registered \cup {UserEffect(n)}
  /\ Commit(effect(Begin, UserEffect(n)))
  /\ last' = [op |-> "effect"]
  /\ UNCHANGED <<cfg, firstMount>>

\* user code assigns state.k = v outside any effect
Write(k, v) ==
  /\ Commit(set(Begin, Obj, k, v))
  /\ last' = [op |-> "write", k |-> k, v |-> v,
              prev |-> [k |-> IF last.op = "write" THEN last.k ELSE "",
                        thrown |-> thrown]]
  /\ UNCHANGED <<registered, cfg, firstMount>>

NextReact ==
  \/ \E n \in UserEffectIds : RegisterEffect(n)
  \/ \E k \in ObjKeys, v \in Vals : Write(k, v)

SpecReact == InitReact /\ [][NextReact]_vars

(***************************************************************************)
(* One object behind several wrappers: effects read it and user code       *)
(* writes it through reactive(Obj) or through reactive(reactive(Obj)).     *)
(***************************************************************************)
Wrappers == {"reactive(obj)", "reactive(reactive(obj))"}

\* user code calls effect(fn)
RegisterProxyEffect(n) ==
  /\ ProxyEffect(n) \notin registered
  /\ registered' = registered \cup {ProxyEffect(n)}
  /\ Commit(effect(Begin, ProxyEffect(n)))
  /\ last' = [op |-> "effect"]
  /\ UNCHANGED <<cfg, firstMount>>

\* user code assigns w.k = v, w being one of the wrappers
WriteVia(w, k, v) ==
  /\ Commit(IF w = "reactive(obj)" THEN set(Begin, Obj, k, v)
            ELSE setWrapped(Begin, k, v))
  /\ last' = [op |-> "write", via |-> w, k |-> k, v |-> v,
              changed |-> store[Obj][k] # v]
  /\ UNCHANGED <<registered, cfg, firstMount>>

NextProxy ==
  \/ \E n \in 1..2 : RegisterProxyEffect(n)
  \/ \E w \in Wrappers : \E k \in ObjKeys : \E v \in Vals : WriteVia(w, k, v)

SpecProxy == InitReact /\ [][NextProxy]_vars

(***************************************************************************)
(* Effects that write: user code registers effects whose bodies assign     *)
(* properties of the plain reactive object, and writes its properties.     *)
(***************************************************************************)
\* user code calls effect(fn)
RegisterCascade(n) ==
  /\ CascadeEffect(n) \notin registered
  /\ registered' = registered \cup {CascadeEffect(n)}
  /\ Commit(effect(Begin, CascadeEffect(n)))
  /\ last' = [op |-> "effect", n |-> n]
  /\ UNCHANGED <<cfg, firstMount>>

NextCascade ==
  \/ \E n \in 1..3 : RegisterCascade(n)
  \/ \E k \in ObjKeys, v \in Vals : Write(k, v)

SpecCascade == InitReact /\ [][NextCascade]_vars

(***************************************************************************)
(* A reactive list: reactive([]), effects that read it, and user code that *)
(* appends to it, assigns an element and empties it.                       *)
(***************************************************************************)
InitList ==
  /\ InitCommon
  /\ cfg = [render |-> 0, router |-> 0]
  /\ popListener = FALSE
  /\ store = (List :> [k \in {"length"} \cup {Index(i) : i \in 0..(MaxLen - 1)} |->
                         IF k = "length" THEN 0 ELSE Undefined])

\* user code calls effect(fn)
RegisterListEffect(n) ==
  /\ ListEffect(n) \notin registered
  /\ registered' = registered \cup {ListEffect(n)}
  /\ Commit(effect(Begin, ListEffect(n)))
  /\ last' = [op |-> "effect"]
  /\ UNCHANGED <<cfg, firstMount>>

\* user code calls list.push(v)
Push(v) ==
  /\ store[List]["length"] < MaxLen
  /\ Commit(push(Begin, v))
  /\ last' = [op |-> "push", v |-> v, len |-> store[List]["length"]]
  /\ UNCHANGED <<registered, cfg, firstMount>>

\* user code assigns list[i] = v to an element the list has
AssignElement(i, v) ==
  /\ i < store[List]["length"]
  /\ Commit(setIndex(Begin, i, v))
  /\ last' = [op |-> "assign", i |-> i, v |-> v]
  /\ UNCHANGED <<registered, cfg, firstMount>>

\* user code assigns list.length = 0
Truncate ==
  /\ Commit(truncate(Begin))
  /\ last' = [op |-> "truncate"]
  /\ UNCHANGED <<registered, cfg, firstMount>>

NextList ==
  \/ \E n \in 1..2 : RegisterListEffect(n)
  \/ \E v \in Vals : Push(v)
  \/ \E i \in 0..(MaxLen - 1) : \E v \in Vals : AssignElement(i, v)
  \/ Truncate

SpecList == InitList /\ [][NextList]_vars

(***************************************************************************)
(* A nested reactive object: reactive({user: {name}, other}), effects on   *)
(* it, writes through the chain and replacement of the inner object.       *)
(***************************************************************************)
InitNested ==
  /\ InitCommon
  /\ cfg = [render |-> 0, router |-> 0]
  /\ popListener = FALSE
  /\ store = (Root :> [user |-> Inner(1), other |-> 0]) @@ (Inner(1) :> [name |-> 0])

\* user code calls effect(fn)
RegisterNested(n) ==
  /\ NestedEffect(n) \notin registered
  /\ registered' = registered \cup {NestedEffect(n)}
  /\ Commit(effect(Begin, NestedEffect(n)))
  /\ last' = [op |-> "effect"]
  /\ UNCHANGED <<cfg, firstMount>>

\* user code assigns state.user.name = v
WriteName(v) ==
  /\ LET write(s1) == set(s1, s1.store[Root]["user"], "name", v)
     IN Commit(write(get(Begin, NoEffect, "top", Root, "user")))
  /\ last' = [op |-> "writeName", inner |-> store[Root]["user"]]
  /\ UNCHANGED <<registered, cfg, firstMount>>

\* user code assigns state.user = {name: v}, a new object
ReplaceUser(v) ==
  LET i == Cardinality(DOMAIN store)
  IN /\ i <= MaxInner
     /\ Commit(set([Begin EXCEPT !.store = @ @@ (Inner(i) :> [name |-> v])],
                   Root, "user", Inner(i)))
     /\ last' = [op |-> "replaceUser"]
     /\ UNCHANGED <<registered, cfg, firstMount>>

\* user code assigns state.other = v
WriteOther(v) ==
  /\ Commit(set(Begin, Root, "other", v))
  /\ last' = [op |-> "writeOther"]
  /\ UNCHANGED <<registered, cfg, firstMount>>

NextNested ==
  \/ \E n \in 1..2 : RegisterNested(n)
  \/ \E v \in Vals : WriteName(v)
  \/ \E v \in Vals : ReplaceUser(v)
  \/ \E v \in Vals : WriteOther(v)

SpecNested == InitNested /\ [][NextNested]_vars

(***************************************************************************)
(* The reconciler on its own: a harness renders a tree into the cleared    *)
(* mount point and then reconciles it against further trees.  A call with  *)
(* an old tree is made only while the live child matches that tree, which  *)
(* is the precondition of the reconciler's contract.                       *)
(***************************************************************************)
KidSet ==
  {VText(""), VText("a"), VText("b"),
   VElem("span", ("onclick" :> Fn("h1")), <<>>)}
KidLists == UNION {[1..n -> KidSet] : n \in 0..MaxKids}
PropChoices ==
  {EmptyFn,
   ("style" :> Str("x")),
   ("style" :> Str("y")),
   ("onclick" :> Fn("h1")),
   ("onclick" :> Fn("h2")) @@ ("style" :> Str("x")),
   ("onclick" :> UndefVal),
   ("key" :> Str("k")) @@ ("style" :> Str("x"))}
\* two trees of three children that differ in the place of an empty text
\* in front of an element with a handler
ShiftTrees ==
  {VElem("div", EmptyFn, <<VText("a"), VText(""), VElem("span", ("onclick" :> Fn("h1")), <<>>)>>),
   VElem("div", EmptyFn, <<VText(""), VText("a"), VElem("span", ("onclick" :> Fn("h1")), <<>>)>>)}
ReconTrees ==
  {VElem("div", EmptyFn, ks) : ks \in KidLists}
    \cup {VElem(tg, ps, <<VText("a")>>) : tg \in {"div", "section"}, ps \in PropChoices}
    \cup ShiftTrees

\* the live child of the mount point matches tree t
Matches(d, t) == Plain(d).children = <<Plain(createElement(t))>>

InitRecon ==
  /\ InitCommon
  /\ cfg = [render |-> 0, router |-> 0]
  /\ popListener = FALSE
  /\ store = <<>>

ReconCommit(r, t) ==
  /\ dom' = r.node
  /\ oldTree' = t
  /\ log' = r.log
  /\ thrown' = r.thrown
  /\ UNCHANGED <<store, targetMap, activeEffect, registered, cfg, mounted, root,
                 cleanupEffect, effectActive, gen, globalRouter, location,
                 popListener, isNavigating, timers, regReads, everRead,
                 firstMount>>

\* updateElement(root, t, undefined, 0) on the cleared mount point
InitialRender(t) ==
  /\ ReconCommit(updateElement([node |-> [Plain(dom) EXCEPT !.children = <<>>],
                                log |-> <<>>, thrown |-> NoError],
                               t, VUndef, 0), t)
  /\ last' = [op |-> "reconcile", hadOld |-> FALSE, same |-> FALSE,
              old |-> VUndef]

\* updateElement(root, t, oldTree, 0)
Reconcile(t) ==
  /\ oldTree.kind # "undef"
  /\ Matches(dom, oldTree)
  /\ ReconCommit(updateElement([node |-> Plain(dom), log |-> <<>>,
                                thrown |-> NoError],
                               t, oldTree, 0), t)
  /\ last' = [op |-> "reconcile", hadOld |-> TRUE, same |-> (t = oldTree),
              old |-> oldTree]

\* the full replacement the shell makes for a first render or a changed
\* route, whatever is live under the mount point
Replace(t) ==
  /\ ReconCommit(fullReplace([node |-> Plain(dom), log |-> <<>>, thrown |-> NoError],
                             t), t)
  /\ last' = [op |-> "replace", listeners |-> ListenersIn(dom)]

NextRecon ==
  \/ \E t \in ReconTrees : InitialRender(t)
  \/ \E t \in ReconTrees : Reconcile(t)
  \/ \E t \in ReconTrees : Replace(t)

SpecRecon == InitRecon /\ [][NextRecon]_vars

(***************************************************************************)
(* The properties of one live element: createElement of a childless div    *)
(* with props, then updateProps calls, each with the props of the call     *)
(* before as old props, whatever the element looks like by then.           *)
(***************************************************************************)
PropsCommit(r, ps) ==
  /\ dom' = [EmptyRoot EXCEPT !.children = <<r.node>>]
  /\ oldTree' = VElem("div", ps, <<>>)
  /\ log' = r.log
  /\ thrown' = r.thrown
  /\ UNCHANGED <<store, targetMap, activeEffect, registered, cfg, mounted, root,
                 cleanupEffect, effectActive, gen, globalRouter, location,
                 popListener, isNavigating, timers, regReads, everRead,
                 firstMount>>

\* createElement(h('div', ps))
CreateElement(ps) ==
  /\ PropsCommit([node |-> createElement(VElem("div", ps, <<>>)), log |-> <<>>,
                  thrown |-> NoError], ps)
  /\ last' = [op |-> "createElement"]

\* updateProps(element, ps, oldProps)
UpdateProps(ps) ==
  /\ oldTree.kind = "elem"
  /\ PropsCommit(updateProps([node |-> Plain(dom.children[1]), log |-> <<>>,
                              thrown |-> NoError], ps, oldTree.props), ps)
  /\ last' = [op |-> "updateProps", old |-> oldTree.props,
              stored |-> dom.children[1].stored]

NextProps ==
  \/ \E ps \in PropChoices : CreateElement(ps)
  \/ \E ps \in PropChoices : UpdateProps(ps)

SpecProps == InitRecon /\ [][NextProps]_vars

(***************************************************************************)
(* The application: one instance created with createApp(cfg), mounted,     *)
(* written to, navigated and unmounted by user code and by the host.       *)
(***************************************************************************)
Configs ==
  {[render |-> c, router |-> 0] : c \in 0..3}
    \cup {[render |-> 0, router |-> t] : t \in DOMAIN RouteTables}
Selectors == {"#app", "#nonexistent"}
\* the properties of the state that the components of a configuration use
componentKeys(c) ==
  CASE c \in {1, 3} -> {"n"}
    [] c = 2 -> {"show", "msg"}
    [] c = 4 -> {"msg"}
    [] OTHER -> {}
UsedKeys(c) ==
  IF c.render # 0 THEN componentKeys(c.render)
  ELSE IF c.router # 0
       THEN UNION {componentKeys(RouteTables[c.router][i].component) :
                     i \in DOMAIN RouteTables[c.router]}
       ELSE {"n"}

\* createRouter(routes) ran when the configuration has a router: the
\* routing state holds the host's path and handlePopState is registered
InitApp ==
  /\ InitCommon
  /\ cfg \in Configs
  /\ popListener = (cfg.router # 0)
  /\ store = (RS :> [currentPath |-> "/"])

\* user code calls app.mount(selector)
Mount(selector) ==
  /\ mounted \/ selector # "#app" \/ gen < MaxMounts
  /\ Commit(mount(Begin, selector))
  /\ last' = [op |-> "mount", selector |-> selector, wasMounted |-> mounted,
              path |-> store[RS]["currentPath"],
              pre |-> [mounted |-> mounted, root |-> root, oldTree |-> oldTree,
                       globalRouter |-> globalRouter, targetMap |-> targetMap,
                       activeEffect |-> activeEffect]]
  /\ firstMount' = IF ~firstMount.done /\ ~mounted /\ selector = "#app"
                   THEN [done |-> TRUE, path |-> store[RS]["currentPath"],
                         thrown |-> thrown', content |-> Plain(dom').children]
                   ELSE firstMount
  /\ UNCHANGED <<registered, cfg>>

\* user code calls app.unmount()
Unmount ==
  /\ Commit(unmount(Begin))
  /\ last' = [op |-> "unmount", wasMounted |-> mounted]
  /\ UNCHANGED <<registered, cfg, firstMount>>

\* user code assigns state.k = v on the state proxy of the latest mount
WriteState(k, v) ==
  /\ gen >= 1
  /\ k \in UsedKeys(cfg)
  /\ Commit(set(Begin, StateObj(gen), k, v))
  /\ last' = [op |-> "write", k |-> k]
  /\ UNCHANGED <<registered, cfg, firstMount>>

\* user code calls router.navigate(path)
Navigate(path) ==
  /\ cfg.router # 0
  /\ Commit(navigate(Begin, path))
  /\ last' = [op |-> "navigate", path |-> path, inFlight |-> isNavigating,
              from |-> store[RS]["currentPath"], rendered |-> oldTree.route]
  /\ UNCHANGED <<registered, cfg, firstMount>>

\* the timer that navigate set fires
TimerFires ==
  /\ timers > 0
  /\ Commit([Begin EXCEPT !.isNavigating = FALSE, !.timers = @ - 1])
  /\ last' = [op |-> "timer"]
  /\ UNCHANGED <<registered, cfg, firstMount>>

\* the user goes back or forward: the host moves to another path of the
\* session history and notifies the listeners of 'popstate'
HostBack(path) ==
  /\ cfg.router # 0
  /\ path # location
  /\ Commit(IF popListener
            THEN handlePopState([Begin EXCEPT !.location = path])
            ELSE [Begin EXCEPT !.location = path])
  /\ last' = [op |-> "popstate", path |-> path]
  /\ UNCHANGED <<registered, cfg, firstMount>>

NextApp ==
  \/ \E sel \in Selectors : Mount(sel)
  \/ Unmount
  \/ \E k \in DataKeys : \E v \in DataVals(k) : WriteState(k, v)
  \/ \E p \in Paths : Navigate(p)
  \/ TimerFires
  \/ \E p \in Paths : HostBack(p)

SpecApp == InitApp /\ [][NextApp]_vars

(***************************************************************************)
(* The router on its own: createRouter(routes) with a table of TestTables, *)
(* then navigate() and getCurrentRoute().                                  *)
(***************************************************************************)
InitRoute ==
  /\ InitCommon
  /\ cfg \in {[render |-> 0, router |-> t] :
               t \in (DOMAIN AllTables) \ (DOMAIN RouteTables)}
  /\ popListener = TRUE
  /\ store = (RS :> [currentPath |-> "/"])

\* user code calls router.getCurrentRoute()
GetCurrentRoute ==
  /\ last' = [op |-> "getCurrentRoute",
              result |-> findRoute(routes, store[RS]["currentPath"])]
  /\ UNCHANGED <<store, targetMap, activeEffect, registered, dom, cfg, mounted,
                 root, oldTree, cleanupEffect, effectActive, gen, globalRouter,
                 location, popListener, isNavigating, timers, regReads, everRead,
                 log, thrown, firstMount>>

\* user code calls effect(fn) with a function that reads the router state
RegisterPathEffect ==
  /\ PathEffect \notin registered
  /\ registered' = registered \cup {PathEffect}
  /\ Commit(effect(Begin, PathEffect))
  /\ last' = [op |-> "effect"]
  /\ UNCHANGED <<cfg, firstMount>>

\* user code calls router.destroy()
Destroy ==
  /\ cfg.router # 0
  /\ Commit(destroy(Begin))
  /\ last' = [op |-> "destroy"]
  /\ UNCHANGED <<registered, cfg, firstMount>>

NextRoute ==
  \/ \E p \in Paths : Navigate(p)
  \/ TimerFires
  \/ GetCurrentRoute
  \/ RegisterPathEffect
  \/ \E p \in Paths : HostBack(p)
  \/ Destroy

SpecRoute == InitRoute /\ [][NextRoute]_vars

\* The host runs a timer that is due: the callback of setTimeout(..., 10)
\* is eventually called.
SpecRouteFair == SpecRoute /\ WF_vars(TimerFires)

(***************************************************************************)
(* Two applications in one page, each created with a router of its own     *)
(* (two createRouter calls on one route table) and mounted on a container  *)
(* of its own.  In this specification every variable that belongs to an    *)
(* application or to its router holds one value per application; the       *)
(* active-effect slot, the ambient router and the host's location are      *)
(* shared.  A call on application a runs on the program state as a's       *)
(* closures see it, where "router" is config.router of a.                  *)
(***************************************************************************)
Apps == {1, 2}
RouterOf(a) == IF a = 1 THEN "router1" ELSE "router2"
\* the application whose router the ambient router is
AmbientApp == CHOOSE a \in Apps : RouterOf(a) = globalRouter

BeginOf(a) ==
  [store |-> store[a], targetMap |-> targetMap[a], activeEffect |-> activeEffect,
   dom |-> Plain(dom[a]), mounted |-> mounted[a], root |-> root[a],
   oldTree |-> oldTree[a], cleanupEffect |-> cleanupEffect[a],
   effectActive |-> effectActive[a], gen |-> gen[a],
   globalRouter |-> IF globalRouter = RouterOf(a) THEN "router" ELSE globalRouter,
   location |-> location, popListener |-> popListener[a],
   isNavigating |-> isNavigating[a], timers |-> timers[a],
   regReads |-> regReads[a], everRead |-> everRead[a],
   log |-> <<>>, thrown |-> NoError, depth |-> 0]

CommitOf(a, st) ==
  /\ store' = [store EXCEPT ![a] = st.store]
  /\ targetMap' = [targetMap EXCEPT ![a] = st.targetMap]
  /\ activeEffect' = st.activeEffect
  /\ dom' = [dom EXCEPT ![a] = st.dom]
  /\ mounted' = [mounted EXCEPT ![a] = st.mounted]
  /\ root' = [root EXCEPT ![a] = st.root]
  /\ oldTree' = [oldTree EXCEPT ![a] = st.oldTree]
  /\ cleanupEffect' = [cleanupEffect EXCEPT ![a] = st.cleanupEffect]
  /\ effectActive' = [effectActive EXCEPT ![a] = st.effectActive]
  /\ gen' = [gen EXCEPT ![a] = st.gen]
  /\ globalRouter' = IF st.globalRouter = "router" THEN RouterOf(a) ELSE st.globalRouter
  /\ location' = st.location
  /\ popListener' = [popListener EXCEPT ![a] = st.popListener]
  /\ isNavigating' = [isNavigating EXCEPT ![a] = st.isNavigating]
  /\ timers' = [timers EXCEPT ![a] = st.timers]
  /\ regReads' = [regReads EXCEPT ![a] = st.regReads]
  /\ everRead' = [everRead EXCEPT ![a] = st.everRead]
  /\ log' = st.log
  /\ thrown' = st.thrown
  /\ UNCHANGED <<registered, cfg, firstMount>>

InitAmbient ==
  /\ cfg \in {[render |-> 0, router |-> t] : t \in DOMAIN RouteTables}
  /\ store = [a \in Apps |-> (RS :> [currentPath |-> "/"])]
  /\ targetMap = [a \in Apps |-> <<>>]
  /\ activeEffect = NoEffect
  /\ registered = {}
  /\ dom = [a \in Apps |-> EmptyRoot]
  /\ mounted = [a \in Apps |-> FALSE]
  /\ root = [a \in Apps |-> "null"]
  /\ oldTree = [a \in Apps |-> VUndef]
  /\ cleanupEffect = [a \in Apps |-> 0]
  /\ effectActive = [a \in Apps |-> <<>>]
  /\ gen = [a \in Apps |-> 0]
  /\ globalRouter = "null"
  /\ location = "/"
  /\ popListener = [a \in Apps |-> TRUE]
  /\ isNavigating = [a \in Apps |-> FALSE]
  /\ timers = [a \in Apps |-> 0]
  /\ regReads = [a \in Apps |-> [e \in Effects |-> {}]]
  /\ everRead = [a \in Apps |-> [e \in Effects |-> {}]]
  /\ log = <<>>
  /\ thrown = NoError
  /\ last = [op |-> "init"]
  /\ firstMount = [done |-> FALSE, path |-> "", thrown |-> NoError, content |-> <<>>]

\* user code calls mount('#app') on application a
MountOf(a) ==
  /\ mounted[a] \/ gen[a] < MaxMounts
  /\ CommitOf(a, mount(BeginOf(a), "#app"))
  /\ last' = [op |-> "mount", app |-> a, wasMounted |-> mounted[a]]

\* user code calls unmount() on application a
UnmountOf(a) ==
  /\ CommitOf(a, unmount(BeginOf(a)))
  /\ last' = [op |-> "unmount", app |-> a, wasMounted |-> mounted[a]]

\* the user clicks a Link to path on the surface of a mounted application:
\* its handler calls navigateTo(path), which calls navigate of the ambient
\* router if there is one
NavigateTo(path) ==
  /\ \E a \in Apps : mounted[a]
  /\ IF globalRouter = "null"
     THEN /\ log' = <<>>
          /\ thrown' = NoError
          /\ UNCHANGED <<store, targetMap, activeEffect, registered, dom, cfg,
                         mounted, root, oldTree, cleanupEffect, effectActive, gen,
                         globalRouter, location, popListener, isNavigating, timers,
                         regReads, everRead, firstMount>>
     ELSE CommitOf(AmbientApp, navigate(BeginOf(AmbientApp), path))
  /\ last' = [op |-> "click", path |-> path, ambient |-> globalRouter,
              location |-> location]

\* the timer that navigate of a's router set fires
TimerOf(a) ==
  /\ timers[a] > 0
  /\ CommitOf(a, [BeginOf(a) EXCEPT !.isNavigating = FALSE, !.timers = @ - 1])
  /\ last' = [op |-> "timer", app |-> a]

NextAmbient ==
  \/ \E a \in Apps : MountOf(a)
  \/ \E a \in Apps : UnmountOf(a)
  \/ \E p \in Paths : NavigateTo(p)
  \/ \E a \in Apps : TimerOf(a)

SpecAmbient == InitAmbient /\ [][NextAmbient]_vars

----------------------------------------------------------------------------
(***************************************************************************)
(* Reading the log of the last call.                                       *)
(***************************************************************************)
WriteEvents == {i \in DOMAIN log : log[i].t = "write"}
\* how many times write number i's trigger called effect e
RunsBy(i, e) ==
  Cardinality({j \in DOMAIN log : log[j].t = "run" /\ log[j].by = i /\ log[j].e = e})


----------------------------------------------------------------------------
(***************************************************************************)
(* Claims about the reactivity system.                                     *)
(***************************************************************************)

\* C1: every write that returns has called each effect that read the
\* written property during its effect() run exactly once when the value
\* changed (strict inequality), and not at all when the value was equal.
\* This covers the top-level write and the writes effects make in the
\* cascade; a write whose cascade raises does not return.
C1_WriteInvokesReadersOnce ==
  thrown = NoError =>
    \A i \in WriteEvents : \A e \in log[i].readers :
      RunsBy(i, e) = IF log[i].changed THEN 1 ELSE 0

\* a changed write and an equal write, each with readers, have returned
C1_Witness ==
  /\ thrown = NoError
  /\ \E i \in WriteEvents :
       /\ log[i].changed
       /\ Cardinality(log[i].readers) >= 2
       /\ \A e \in log[i].readers : RunsBy(i, e) = 1
  /\ \E i \in WriteEvents : ~log[i].changed /\ log[i].readers # {}

\* C2: a call of an effect made by trigger runs with the active-effect
\* slot holding that effect, so every property an effect has read in any
\* of its runs is recorded in that property's bucket.
C2_ReinvocationTracks ==
  /\ \A j \in DOMAIN log : log[j].t = "run" => log[j].slot = log[j].e
  /\ \A e \in Effects : \A s \in everRead[e] : InSeq(e, Bucket(targetMap, s))

\* C3: an app mounted with a render function shows, after every write to
\* its state has returned, the fresh materialization of render applied to
\* the current state, whichever properties render reads in that state.
C3_SurfaceFollowsState ==
  (cfg.render # 0 /\ mounted /\ thrown = NoError /\ last.op \in {"mount", "write"})
    => Matches(dom, componentTree(cfg.render, store[StateObj(gen)]))

\* the route the current path resolves to (0 for none) and its component
CurrentRoute == findRoute(routes, store[RS]["currentPath"])
CurrentComponent == routes[CurrentRoute].component

\* C4: in an app mounted with a router, after a write to a state property
\* that the component of the current route reads, the mount point shows
\* the materialization of that component applied to the current state.
C4_RouteComponentFollowsState ==
  (/\ cfg.router # 0 /\ mounted /\ thrown = NoError /\ last.op = "write"
   /\ CurrentRoute # 0
   /\ last.k \in componentKeys(CurrentComponent))
    => Matches(dom, componentTree(CurrentComponent, store[StateObj(gen)]))

\* C5: a reconcile call whose live child matched the old tree (or that had
\* no old tree) leaves exactly the materialization of the new tree under
\* root: no exception, nothing added, nothing left over.
C5_ReconcileYieldsNewTree ==
  last.op = "reconcile" => (thrown = NoError /\ Matches(dom, oldTree))

\* C6: reconciling a tree against itself performs no surface mutation: no
\* node created, removed or replaced, no text or attribute written, no
\* listener added or removed.
C6_SelfReconcileIsSilent ==
  (last.op = "reconcile" /\ last.hadOld /\ last.same)
    => (thrown = NoError /\ log = <<>>)

\* a navigate() call on a mounted router app to a path that resolves to a
\* route other than the rendered one
NavigatedToOtherRoute ==
  /\ cfg.router # 0 /\ mounted /\ last.op = "navigate"
  /\ findRoute(routes, last.path) # 0
  /\ routes[findRoute(routes, last.path)].path # last.rendered

\* the mount point holds the fresh materialization of the component of the
\* route of last.path, every node of it created by the call
ShowsOnlyNewRoute ==
  /\ thrown = NoError
  /\ Matches(dom, componentTree(routes[findRoute(routes, last.path)].component,
                                store[StateObj(gen)]))
  /\ \A i \in DOMAIN dom.children : AllFresh(dom.children[i])

\* C7 as stated: after navigate() to a path resolving to a route B other
\* than the rendered route A, the mount point holds the materialization
\* of B's component and no node created for A.
C7_NavigateReplaces == NavigatedToOtherRoute => ShowsOnlyNewRoute

\* C7, amended: the same, for a navigate() call made while no navigation
\* is in flight (a call made while one is in flight is dropped).
C7_AcceptedNavigateReplaces ==
  (NavigatedToOtherRoute /\ ~last.inFlight) => ShowsOnlyNewRoute

C7_Witness ==
  /\ NavigatedToOtherRoute /\ ~last.inFlight /\ ShowsOnlyNewRoute
  /\ last.rendered # NoRoute

\* the render events of the last call and whether a render cleared the
\* mount point
RenderEvents == {i \in DOMAIN log : log[i].t = "render"}
Cleared(i) == \E j \in DOMAIN log : j > i /\ log[j].t = "dom" /\ log[j].op = "clear"

\* C8: a render replaces the content wholesale exactly when there is no
\* previous tree or the resolved route differs from the route stamped on
\* the previous tree; otherwise it reconciles in place; the committed
\* tree carries the resolved route.
C8_CommitPolicy ==
  \A i \in RenderEvents :
    /\ Cleared(i) <=> (~log[i].hadOld \/ log[i].oldRoute # log[i].curRoute)
    /\ thrown = NoError => oldTree.route = log[i].curRoute

C8_Witness ==
  /\ cfg.router # 0 /\ thrown = NoError
  /\ \E i \in RenderEvents :
       /\ log[i].hadOld /\ log[i].oldRoute # log[i].curRoute /\ Cleared(i)
       /\ log[i].curRoute # NoRoute /\ oldTree.route = log[i].curRoute

\* an accepted mount that is not the first one of the instance and finds
\* the path the first one found
Remounted ==
  /\ last.op = "mount" /\ ~last.wasMounted /\ last.selector = "#app"
  /\ gen >= 2 /\ firstMount.done /\ last.path = firstMount.path

\* C9: mount is accepted after unmount and renders what the first mount
\* rendered from the same initial state.
C9_RemountRendersSame ==
  Remounted => /\ mounted
               /\ thrown = firstMount.thrown
               /\ Plain(dom).children = firstMount.content

C9_Witness ==
  /\ Remounted /\ mounted /\ thrown = NoError
  /\ firstMount.content # <<>> /\ Plain(dom).children = firstMount.content

\* C10: mount on a mounted instance throws 'App is already mounted' and
\* changes neither the surface content nor mounted, root, the previous
\* tree or the render effect.
C10_DoubleMountRejected ==
  [][(mounted /\ last'.op = "mount")
       => /\ thrown' = "App is already mounted"
          /\ Plain(dom') = Plain(dom)
          /\ mounted' /\ root' = root /\ oldTree' = oldTree
          /\ cleanupEffect' = cleanupEffect /\ effectActive' = effectActive
          /\ targetMap' = targetMap /\ gen' = gen]_vars

C10_Witness ==
  /\ last.op = "mount" /\ last.wasMounted /\ last.selector = "#app"
  /\ thrown = "App is already mounted"
  /\ mounted /\ dom.children # <<>>

----------------------------------------------------------------------------
(***************************************************************************)
(* Claims about mount failures and unmount.                                *)
(***************************************************************************)
DomEvents == {i \in DOMAIN log : log[i].t = "dom"}
\* a mount('#app') call on an instance that is not mounted
MountAttempt ==
  last.op = "mount" /\ ~last.wasMounted /\ last.selector = "#app"

\* C11: mount on an instance (not mounted) configured with neither a
\* render function nor a router throws 'Either render function or router
\* must be provided', and no surface call is made before the throw.
C11_NeitherConfigThrows ==
  (cfg.render = 0 /\ cfg.router = 0 /\ MountAttempt)
    => /\ thrown = "Either render function or router must be provided"
       /\ DomEvents = {}
       /\ dom.children = <<>>

C11_Witness ==
  /\ cfg.render = 0 /\ cfg.router = 0 /\ MountAttempt
  /\ thrown = "Either render function or router must be provided"
  /\ DomEvents = {}

\* C12: a mount call that throws leaves mounted, root, the previous tree,
\* the ambient router, the dependency map and the active-effect slot as
\* they were before the call.
C12_FailedMountChangesNothing ==
  (last.op = "mount" /\ thrown # NoError)
    => /\ mounted = last.pre.mounted
       /\ root = last.pre.root
       /\ oldTree = last.pre.oldTree
       /\ globalRouter = last.pre.globalRouter
       /\ targetMap = last.pre.targetMap
       /\ activeEffect = last.pre.activeEffect

\* C13: unmount on a mounted instance leaves it not mounted, the mount
\* point empty, the previous tree dropped and, with a router, the
\* 'popstate' listener removed and the ambient router cleared; unmount on
\* an instance that is not mounted changes nothing.
C13_UnmountClears ==
  [][last'.op = "unmount"
       => IF mounted
          THEN /\ ~mounted'
               /\ dom'.children = <<>>
               /\ root' = "null"
               /\ oldTree' = VUndef
               /\ cfg.router # 0 => (~popListener' /\ globalRouter' = "null")
          ELSE /\ Plain(dom') = Plain(dom)
               /\ UNCHANGED <<store, targetMap, activeEffect, mounted, root,
                              oldTree, cleanupEffect, effectActive, gen,
                              globalRouter, location, popListener,
                              isNavigating, timers>>]_vars

C13_Witness ==
  /\ last.op = "unmount" /\ last.wasMounted /\ cfg.router # 0
  /\ ~mounted /\ dom.children = <<>> /\ oldTree = VUndef
  /\ ~popListener /\ globalRouter = "null"
  /\ \E i \in DomEvents : log[i].op = "clear"

\* the calls of render effect number g made in the last operation
RenderRuns(g) == {i \in DOMAIN log : log[i].t = "run" /\ log[i].e = RenderEffect(g)}
\* the last operation made a changed write to a slot that the render
\* effect of the current mount read when it was registered
QualifyingChange ==
  \E i \in WriteEvents : log[i].changed /\ RenderEffect(gen) \in log[i].readers

\* C14: once unmount has run the cleanup, the deactivated render effect is
\* still in the buckets of the live slots it read, but no state write,
\* navigate() or host back/forward changes the surface while the instance
\* is unmounted; on a mounted (in particular re-mounted) instance every
\* qualifying change causes exactly one render, whatever render effects
\* of earlier mounts are called with it.
C14_StaleEffectIsInert ==
  /\ \A g \in 1..gen :
       (g \in DOMAIN effectActive /\ ~effectActive[g]) =>
         \A s \in regReads[RenderEffect(g)] :
           s[1] \in DOMAIN store => InSeq(RenderEffect(g), Bucket(targetMap, s))
  /\ (~mounted /\ last.op \in {"write", "navigate", "popstate"})
       => DomEvents = {} /\ RenderEvents = {}
  /\ (mounted /\ last.op \in {"write", "navigate", "popstate"} /\ QualifyingChange)
       => Cardinality(RenderEvents) = 1

C14_Witness ==
  /\ mounted /\ gen = 2 /\ last.op = "navigate" /\ QualifyingChange
  /\ RenderRuns(1) # {} /\ RenderRuns(2) # {}
  /\ ~effectActive[1] /\ effectActive[2]
  /\ Cardinality(RenderEvents) = 1


----------------------------------------------------------------------------
(***************************************************************************)
(* Claims about the router.                                                *)
(***************************************************************************)
RoutesAt(p) == {i \in DOMAIN routes : routes[i].path = p}
Least(S) == CHOOSE i \in S : \A j \in S : i <= j

\* C15: getCurrentRoute() returns the first route of the table whose path
\* is currentPath; when there is none, the first route whose path is "*"
\* (an exact match wins over a wildcard placed before it); when there is
\* neither, undefined, as for the empty table.
C15_CurrentRouteLookup ==
  last.op = "getCurrentRoute" =>
    LET path == store[RS]["currentPath"]
    IN /\ RoutesAt(path) # {} => last.result = Least(RoutesAt(path))
       /\ (RoutesAt(path) = {} /\ RoutesAt("*") # {})
            => last.result = Least(RoutesAt("*"))
       /\ (RoutesAt(path) = {} /\ RoutesAt("*") = {}) => last.result = 0

C15_Witness ==
  /\ last.op = "getCurrentRoute"
  /\ Len(routes) = 3 /\ routes[1].path = "*" /\ routes[2].path = "/about"
  /\ routes[3].path = "/about"
  /\ store[RS]["currentPath"] = "/about" /\ last.result = 2

PushEvents == {i \in DOMAIN log : log[i].t = "push"}
RunEvents == {i \in DOMAIN log : log[i].t = "run"}
\* the last call was navigate(path) with no navigation in flight and a
\* path other than currentPath
NavigateAccepted ==
  last.op = "navigate" /\ ~last.inFlight /\ last.from # last.path

\* C16: navigate(path) pushes path to the history and writes currentPath
\* exactly when no navigation is in flight and path differs from
\* currentPath, and then the write and the calls of its dependents are
\* part of the call; otherwise the call pushes nothing, writes nothing and
\* calls no effect (so the second of two immediate calls with one target
\* does nothing).
C16_NavigateGuard ==
  last.op = "navigate" =>
    IF NavigateAccepted
    THEN /\ Cardinality(PushEvents) = 1
         /\ \A i \in PushEvents : log[i].path = last.path
         /\ location = last.path
         /\ store[RS]["currentPath"] = last.path
         /\ Cardinality(WriteEvents) = 1
         /\ \A i \in WriteEvents :
              /\ log[i].o = RS /\ log[i].k = "currentPath" /\ log[i].changed
              /\ \A j \in PushEvents : j < i
              /\ \A g \in 1..gen :
                   RenderEffect(g) \in log[i].readers => RunsBy(i, RenderEffect(g)) = 1
    ELSE /\ PushEvents = {} /\ WriteEvents = {} /\ RunEvents = {}
         /\ DomEvents = {}
         /\ store[RS]["currentPath"] = last.from

C16_Witness ==
  /\ NavigateAccepted /\ mounted /\ thrown = NoError
  /\ Cardinality(PushEvents) = 1 /\ RenderRuns(gen) # {} /\ RenderEvents # {}
  /\ store[RS]["currentPath"] = last.path

\* C17: whenever the in-flight guard of navigate is set, it is eventually
\* cleared, whatever the dependents of currentPath do.
C17_GuardEventuallyCleared == isNavigating ~> ~isNavigating

----------------------------------------------------------------------------
(***************************************************************************)
(* Claims about nested objects, shared buckets and raising effects.        *)
(***************************************************************************)
\* the last call assigned state.user.name and changed it
NameChanged(i) == i \in WriteEvents /\ log[i].k = "name" /\ log[i].changed

\* C18: a write that changes state.user.name, also after state.user was
\* replaced by a new object, calls every registered effect that reads
\* state.user.name and no effect that never reads it.
C18_NestedWriteInvokesReaders ==
  last.op = "writeName" =>
    \A i \in DOMAIN log :
      NameChanged(i) =>
        /\ NestedEffect(1) \in registered => RunsBy(i, NestedEffect(1)) >= 1
        /\ RunsBy(i, NestedEffect(2)) = 0


\* the effects that the trigger of write number i called, in call order
CalledBy(i) ==
  LET runs == SelectSeq(log, LAMBDA x : x.t = "run" /\ x.by = i)
  IN [j \in DOMAIN runs |-> runs[j].e]
\* the bucket of the property that write number i wrote
BucketOf(i) == Bucket(targetMap, Slot(log[i].o, log[i].k))

\* C19: the trigger of a changed write calls the effects of the written
\* property's bucket one by one in insertion order, each at most once,
\* and a write made by user code that returns has called every one of
\* them; an equal write calls none.
C19_BucketOrder ==
  \A i \in WriteEvents :
    /\ Len(CalledBy(i)) <= Len(BucketOf(i))
    /\ CalledBy(i) = SubSeq(BucketOf(i), 1, Len(CalledBy(i)))
    /\ ~log[i].changed => CalledBy(i) = <<>>
    /\ (i = 1 /\ log[i].changed /\ thrown = NoError) => CalledBy(i) = BucketOf(i)

C19_Witness ==
  /\ last.op = "write" /\ thrown = NoError /\ 1 \in WriteEvents
  /\ log[1].changed /\ log[1].k = "p"
  /\ BucketOf(1) = <<UserEffect(2), UserEffect(1)>>
  /\ CalledBy(1) = <<UserEffect(2), UserEffect(1)>>

\* the last call was a write by user code during which effect 4 raised
RaisedInTrigger == last.op = "write" /\ thrown = "Count too high"
\* the last call was a write by user code of the property whose previous
\* write, the call before, ended with effect 4 raising
WriteAfterRaise ==
  /\ last.op = "write" /\ last.prev.thrown = "Count too high"
  /\ last.prev.k = last.k /\ log[1].changed

\* the last call of an effect in the last operation
LastCall == CHOOSE j \in RunEvents : \A m \in RunEvents : m <= j

\* C20: when an effect raises during a trigger, the write fails with the
\* effect's exception (nothing swallows it); the value written is stored;
\* the raising call is the last thing the write did, so the effects behind
\* it in the bucket are not called; every registered effect stays in the
\* buckets of the properties it read; and the next changing write of the
\* property calls the whole bucket again, the raising effect included.
C20_RaiseInTrigger ==
  /\ (last.op = "write" /\ store[Obj]["q"] = MaxVal
        /\ \E j \in RunEvents : log[j].e = UserEffect(4) /\ log[j].by # 0)
       => thrown = "Count too high"
  /\ RaisedInTrigger =>
       /\ (\A i \in WriteEvents \ {1} : log[i].k # last.k)
            => store[Obj][last.k] = last.v
       /\ log[LastCall].e = UserEffect(4)
       /\ \A j \in LastCall..Len(log) : log[j].t \in {"run", "read"}
       /\ LET i == log[LastCall].by
              n == Len(CalledBy(i))
          IN /\ CalledBy(i) = SubSeq(BucketOf(i), 1, n)
             /\ \A m \in (n + 1)..Len(BucketOf(i)) : RunsBy(i, BucketOf(i)[m]) = 0
  /\ \A e \in registered : \A s \in regReads[e] : InSeq(e, Bucket(targetMap, s))
  /\ (WriteAfterRaise /\ thrown = NoError) => CalledBy(1) = BucketOf(1)
  /\ (WriteAfterRaise /\ thrown # NoError) =>
       /\ CalledBy(1) # <<>>
       /\ CalledBy(1) = SubSeq(BucketOf(1), 1, Len(CalledBy(1)))

\* a raise with an effect behind the raising one in the bucket
C20_Witness ==
  /\ RaisedInTrigger /\ last.k = "q" /\ store[Obj]["q"] = MaxVal
  /\ BucketOf(1) = <<UserEffect(4), UserEffect(3)>>
  /\ CalledBy(1) = <<UserEffect(4)>>
\* the write after a raise calls the raising effect and the one behind it
InvokedAgainAfterRaise ==
  /\ WriteAfterRaise /\ thrown = NoError /\ last.k = "q"
  /\ Len(BucketOf(1)) >= 2 /\ BucketOf(1)[1] = UserEffect(4)
  /\ CalledBy(1) = BucketOf(1)

ReadEvents == {i \in DOMAIN log : log[i].t = "read"}
\* write number i is the latest write of the property that read number r
\* reads
LatestWrite(i, r) ==
  /\ i \in WriteEvents /\ i < r /\ log[i].o = log[r].o /\ log[i].k = log[r].k
  /\ \A j \in WriteEvents :
       (i < j /\ j < r) => (log[j].o # log[r].o \/ log[j].k # log[r].k)

\* C21: the set trap stores the value before it triggers: an effect
\* called because of a write of a property reads, from that property, the
\* value written (the latest one, should the cascade write it again),
\* never the value it held before.
C21_EffectSeesNewValue ==
  \A r \in ReadEvents : \A i \in WriteEvents :
    LatestWrite(i, r) => log[r].val = log[i].v

C21_Witness ==
  /\ last.op = "write" /\ last.k = "p" /\ thrown = NoError /\ log[1].changed
  /\ \E r \in ReadEvents :
       /\ log[r].e = UserEffect(1) /\ log[r].k = "p"
       /\ log[r].val = last.v /\ LatestWrite(1, r)

----------------------------------------------------------------------------
(***************************************************************************)
(* Claims about the reconciler's cases.                                    *)
(***************************************************************************)
\* the last call reconciled two elements of one tag (case 5), so that
\* updateChildren ran on the live element with last.old.children as old
\* and oldTree.children as new children
SameTagReconcile ==
  last.op = "reconcile" /\ last.hadOld /\ last.old.tag = oldTree.tag

\* C22: updateChildren on an element whose live children match the old
\* children leaves it with exactly the new children, one live child per
\* new child and matching it, whatever the two lengths are.
C22_ChildrenMatchNew ==
  SameTagReconcile =>
    /\ thrown = NoError
    /\ Len(dom.children) = 1
    /\ Plain(dom.children[1]).children = Plain(createElement(oldTree)).children

\* the last call reconciled two elements without properties whose
\* children are, index by index, two text leaves
TextLeafPairs ==
  /\ SameTagReconcile
  /\ last.old.props = EmptyFn /\ oldTree.props = EmptyFn
  /\ Len(last.old.children) = Len(oldTree.children)
  /\ \A i \in DOMAIN oldTree.children :
       last.old.children[i].kind = "text" /\ oldTree.children[i].kind = "text"
\* the indices at which the two strings differ
ChangedLeaves == {i \in DOMAIN oldTree.children : last.old.children[i] # oldTree.children[i]}

\* C23: where the old and the new node are both text leaves, the empty
\* string included, the reconciler makes one surface call per index whose
\* strings differ, a write of the live text content, and none elsewhere:
\* no node is created, removed or replaced.
C23_TextLeavesUpdateInPlace ==
  TextLeafPairs =>
    /\ thrown = NoError
    /\ \A j \in DOMAIN log : log[j].op = "text"
    /\ Len(log) = Cardinality(ChangedLeaves)
    /\ Len(dom.children[1].children) = Len(oldTree.children)

\* the last call was a write that made the mounted app render again on
\* the route of its previous tree
SameRouteRerender ==
  /\ mounted /\ last.op = "write"
  /\ \E i \in RenderEvents : log[i].hadOld /\ log[i].oldRoute = log[i].curRoute

\* C24: a re-render on the same route, old and new tree being elements of
\* one tag, keeps the live element and updates it in place: the content is
\* not cleared and no node is replaced; for the counter component a
\* changed count is shown by exactly one surface call, a write of the text.
C24_RerenderInPlace ==
  SameRouteRerender =>
    /\ Len(dom.children) = 1 /\ ~dom.children[1].fresh
    /\ \A i \in DomEvents : log[i].op \notin {"clear", "replace"}
    /\ cfg.render = 1 =>
         /\ thrown = NoError
         /\ Cardinality(DomEvents) = 1
         /\ \A i \in DomEvents : log[i].op = "text"
         /\ Matches(dom, componentTree(1, store[StateObj(gen)]))

C24_Witness ==
  /\ SameRouteRerender /\ cfg.render = 1 /\ thrown = NoError
  /\ store[StateObj(gen)].n = 1
  /\ Cardinality(DomEvents) = 1
  /\ Plain(dom.children[1]).children = <<Plain(TextNode("Count: 1"))>>

----------------------------------------------------------------------------
(***************************************************************************)
(* Claims about properties and listeners.                                  *)
(***************************************************************************)
ListenerCalls == {i \in DOMAIN log : log[i].op \in {"removeListener", "addListener"}}
CallsOf(op) == Cardinality({i \in DOMAIN log : log[i].op = op})
\* the function-valued handler properties of props
Handlers(ps) == {k \in DOMAIN ps : IsOn(k) /\ ps[k].t = "fn"}

\* C25: for a handler property of the new props, updateProps touches the
\* listener only when the new function is not the one stored on the
\* element: then it removes the stored one, if any, and adds the new one;
\* for the stored reference itself no listener is removed or added.  An
\* element never has two listeners for one handler property.
C25_HandlerReattachOnChange ==
  last.op = "updateProps" =>
    /\ \A k \in Handlers(oldTree.props) :
         IF k \in DOMAIN last.stored /\ last.stored[k] = oldTree.props[k].v
         THEN ListenerCalls = {}
         ELSE /\ CallsOf("addListener") = 1
              /\ CallsOf("removeListener") = IF k \in DOMAIN last.stored THEN 1 ELSE 0
    /\ \A k \in {"onclick"} :
         Cardinality({l \in dom.children[1].listeners : l[1] = EventName(k)}) <= 1

C25_Witness ==
  /\ last.op = "updateProps" /\ "onclick" \in Handlers(oldTree.props)
  /\ "onclick" \in DOMAIN last.stored /\ last.stored["onclick"] = oldTree.props["onclick"].v
  /\ last.old # oldTree.props
  /\ ListenerCalls = {} /\ Cardinality(dom.children[1].listeners) = 1

\* C26: after createElement and any updateProps calls the listeners of the
\* element are exactly the function-valued handler properties of the props
\* applied last; a handler property that is gone, or whose new value is
\* not a function, has no listener left.
C26_ListenersAreLatestHandlers ==
  last.op \in {"createElement", "updateProps"} =>
    dom.children[1].listeners =
      {<<EventName(k), oldTree.props[k].v>> : k \in Handlers(oldTree.props)}

ClearCalls == {i \in DOMAIN log : log[i].op = "clear"}

\* C27: a full replacement detaches, before it clears the mount point,
\* every listener of every live node under it, at any depth: the content
\* cleared holds no attached listener, and one listener was removed for
\* each one that was attached.
C27_CleanupBeforeReplace ==
  last.op = "replace" =>
    /\ Cardinality(ClearCalls) = 1
    /\ \A i \in ClearCalls :
         /\ log[i].lost = 0
         /\ Cardinality({j \in DOMAIN log : j < i /\ log[j].op = "removeListener"})
              = last.listeners
    /\ Matches(dom, oldTree)

\* C28: when the reconciler removes a live node or replaces it by a new
\* one, no listener is attached to the discarded node or below it by the
\* time it leaves the surface.
C28_DiscardedNodesHaveNoListeners ==
  last.op = "reconcile" =>
    \A i \in DOMAIN log : log[i].op \in {"remove", "replace"} => log[i].lost = 0

----------------------------------------------------------------------------
(***************************************************************************)
(* Claims about the dependency buckets.                                    *)
(***************************************************************************)
PathBucket == Bucket(targetMap, Slot(RS, "currentPath"))

\* C29: a bucket exists only for a property read in the effect() run of
\* an effect, and holds such effects only; a read outside any effect
\* creates none; the bucket of a live object only grows at its end, and
\* no write, navigate, timer, host notification or unmount changes any
\* bucket, so that the bucket of currentPath holds one render effect per
\* mount of a router app, the unmounted ones included.
C29_BucketsOnlyGrow ==
  [][/\ \A s \in DOMAIN targetMap :
          s[1] \in DOMAIN store' =>
            /\ Len(Bucket(targetMap', s)) >= Len(targetMap[s])
            /\ SubSeq(Bucket(targetMap', s), 1, Len(targetMap[s])) = targetMap[s]
     /\ last'.op # "mount" => targetMap' = targetMap
     /\ \A s \in DOMAIN targetMap' :
          /\ targetMap'[s] # <<>>
          /\ \A i \in DOMAIN targetMap'[s] : s \in regReads'[targetMap'[s][i]]
     /\ cfg.router # 0 =>
          Bucket(targetMap', Slot(RS, "currentPath")) = [g \in 1..gen' |-> RenderEffect(g)]
    ]_vars

C29_Witness ==
  /\ cfg.router # 0 /\ gen = 2 /\ ~mounted /\ last.op = "unmount" /\ last.wasMounted
  /\ PathBucket = <<RenderEffect(1), RenderEffect(2)>>

\* how many times the last operation called effect e
Runs(e) == Cardinality({j \in RunEvents : log[j].e = e})

\* C30: buckets are keyed by the raw object, whatever wrapper a read or a
\* write goes through, so a changed write of p through any wrapper calls
\* each registered effect that reads p exactly once.
C30_OneBucketPerObject ==
  /\ \A s \in DOMAIN targetMap : s[1] = Obj
  /\ (last.op = "write" /\ last.k = "p" /\ last.changed) =>
       \A e \in registered : Runs(e) = 1

----------------------------------------------------------------------------
(***************************************************************************)
(* Claims about the active-effect slot, the router's host listener and the *)
(* ambient router.                                                         *)
(***************************************************************************)
\* C31: between top-level calls, so whenever every effect() call has
\* finished, by return or by exception, the active-effect slot is empty,
\* and an effect is in the bucket of a property only if one of its own
\* runs read that property.
C31_SlotEmptyAfterEffect ==
  /\ activeEffect = NoEffect
  /\ \A s \in DOMAIN targetMap :
       \A i \in DOMAIN targetMap[s] : s \in everRead[targetMap[s][i]]

\* C32: while handlePopState is registered, after a navigate() call and
\* after a host back/forward notification currentPath is the host's
\* location: a navigate() dropped by its guard pushes nothing and leaves
\* both alone, an accepted one leaves both at its path, also when a
\* dependent of currentPath raises, and a notification leaves both at the
\* path the host moved to.
C32_PathFollowsLocation ==
  (popListener /\ last.op \in {"navigate", "popstate"}) =>
    /\ store[RS]["currentPath"] = location
    /\ last.op = "popstate" => location = last.path
    /\ last.op = "navigate" =>
         IF NavigateAccepted THEN location = last.path
         ELSE location = last.from /\ PushEvents = {} /\ WriteEvents = {}

C32_Witness ==
  /\ popListener /\ NavigateAccepted /\ thrown = "Unknown path"
  /\ location = "/zzz" /\ store[RS]["currentPath"] = "/zzz"

\* what a router app shows for a path: the component of the route found,
\* applied to the current state, or the built-in 404 tree
ShownFor(path) ==
  IF findRoute(routes, path) # 0
  THEN componentTree(routes[findRoute(routes, path)].component, store[StateObj(gen)])
  ELSE NotFoundTree

\* C33: on a mounted router app, of the first mount or of a mount after an
\* unmount, a host back/forward notification leaves currentPath at the
\* host's location and the surface showing the route of that location.
C33_BackForwardAfterRemount ==
  (cfg.router # 0 /\ mounted /\ last.op = "popstate") =>
    /\ store[RS]["currentPath"] = location
    /\ Matches(dom, ShownFor(location))

\* C34: destroy() removes handlePopState from the host and changes nothing
\* else, currentPath in particular; a host back/forward notification that
\* comes after destroy() writes no property, calls no effect and leaves
\* currentPath and the buckets as they were.
C34_DestroyDetaches ==
  [][/\ last'.op = "destroy" =>
          /\ ~popListener'
          /\ store' = store /\ location' = location /\ targetMap' = targetMap
          /\ log' = <<>> /\ thrown' = NoError
     /\ (last'.op = "popstate" /\ ~popListener) =>
          /\ store' = store /\ targetMap' = targetMap
          /\ log' = <<>> /\ thrown' = NoError
          /\ Plain(dom') = Plain(dom)
    ]_vars

C34_Witness ==
  /\ last.op = "popstate" /\ ~popListener /\ PathEffect \in registered
  /\ location = "/about" /\ store[RS]["currentPath"] = "/"
  /\ log = <<>>

\* C35: the ambient router is one reference for the whole page: an
\* accepted mount of an application sets it to that application's router,
\* an unmount of a mounted application empties it, whichever application
\* is still mounted, and no other call changes it; a Link click while it
\* is empty pushes nothing, writes nothing and renders nothing.
C35_AmbientRouterIsLastMount ==
  [][/\ (last'.op = "mount" /\ ~mounted[last'.app]) =>
          globalRouter' = RouterOf(last'.app)
     /\ (last'.op = "unmount" /\ mounted[last'.app]) => globalRouter' = "null"
     /\ ~(last'.op \in {"mount", "unmount"} /\ mounted[last'.app] = (last'.op = "unmount"))
          => globalRouter' = globalRouter
     /\ (last'.op = "click" /\ globalRouter = "null") =>
          /\ log' = <<>> /\ location' = location /\ store' = store
          /\ dom' = dom
     /\ (last'.op = "click" /\ globalRouter # "null"
           /\ ~isNavigating[AmbientApp]
           /\ store[AmbientApp][RS]["currentPath"] # last'.path) =>
          /\ location' = last'.path
          /\ store'[AmbientApp][RS]["currentPath"] = last'.path
    ]_vars

\* application 1 is mounted, application 2 was mounted later and has been
\* unmounted, and a Link of application 1 is clicked
C35_Witness ==
  /\ last.op = "click" /\ last.ambient = "null"
  /\ mounted[1] /\ ~mounted[2] /\ gen[2] >= 1
  /\ log = <<>> /\ location = last.location

----------------------------------------------------------------------------
(***************************************************************************)
(* Claims about lists and about termination.                               *)
(***************************************************************************)
\* C36: list.push(v) calls, before it returns, every registered effect
\* that read the length of the list in its effect() run.
C36_PushInvokesLengthReaders ==
  last.op = "push" =>
    \A e \in registered :
      Slot(List, "length") \in regReads[e] => Runs(e) >= 1

\* C37: every write returns: no call of user code, whatever effects it
\* sets off and whatever those write, nests calls of effects until the
\* call stack of the host is exhausted.
C37_CascadeTerminates == thrown # "RangeError"
========================================================================
